---- MODULE Spec2Model ----
(***************************************************************************)
(* Verification model of the geopolitical simulation engine:               *)
(*   - the interactive engine (backend/world_brain.py, class WorldBrain)   *)
(*   - the predictive timeline projector                                   *)
(*     (backend/predictive_simulation_service.py)                          *)
(* Numbers that the code keeps as floats in [0,1] are kept here as         *)
(* integers in hundredths; random.random() is kept in hundredths too.      *)
(***************************************************************************)
EXTENDS Integers, Sequences, FiniteSets, TLC

\* ------------------------------------------------------------------------
\* Bounds of the model
\* ------------------------------------------------------------------------
\* ticks of one interactive simulation
MaxTicks == 1
\* the number of steps requested of one instance where steps follow one another
MaxSteps == 2

\* ------------------------------------------------------------------------
\* Small helpers
\* ------------------------------------------------------------------------
Min(a, b) == IF a < b THEN a ELSE b
Max(a, b) == IF a > b THEN a ELSE b

\* Python's truth value of an optional integer (None and 0 are falsy)
NoneVal == -1
Truthy(x) == x # NoneVal /\ x # 0

\* ------------------------------------------------------------------------
\* Reference data (world_data_service curated table, world_leaders_service)
\* ------------------------------------------------------------------------
country_table ==
  ("US" :> [regime_type |-> "democracy",     bloc |-> "Western",
            alliances |-> {"NATO", "Five Eyes", "Quad", "AUKUS"}]) @@
  ("CN" :> [regime_type |-> "authoritarian", bloc |-> "Eastern",
            alliances |-> {"Shanghai Cooperation Organization", "BRICS"}]) @@
  ("RU" :> [regime_type |-> "authoritarian", bloc |-> "Eastern",
            alliances |-> {"CSTO", "Shanghai Cooperation Organization"}]) @@
  ("UK" :> [regime_type |-> "democracy",     bloc |-> "Western",
            alliances |-> {"NATO", "Five Eyes", "Commonwealth"}]) @@
  ("FR" :> [regime_type |-> "democracy",     bloc |-> "Western",
            alliances |-> {"NATO", "EU", "Francophonie"}]) @@
  ("DE" :> [regime_type |-> "democracy",     bloc |-> "Western",
            alliances |-> {"NATO", "EU"}]) @@
  ("JP" :> [regime_type |-> "democracy",     bloc |-> "Western",
            alliances |-> {"Quad", "US-Japan Alliance"}]) @@
  ("IN" :> [regime_type |-> "democracy",     bloc |-> "Non-Aligned",
            alliances |-> {"Quad", "BRICS", "Non-Aligned Movement"}]) @@
  ("IR" :> [regime_type |-> "theocracy",     bloc |-> "Eastern",
            alliances |-> {"Shanghai Cooperation Organization"}]) @@
  ("IL" :> [regime_type |-> "democracy",     bloc |-> "Western",
            alliances |-> {"US-Israel Alliance"}])

\* Python's "<" on the country id strings (lexicographic order)
IdRank ==
  ("CN" :> 1) @@ ("DE" :> 2) @@ ("FR" :> 3) @@ ("IL" :> 4) @@ ("IN" :> 5) @@
  ("IR" :> 6) @@ ("JP" :> 7) @@ ("RU" :> 8) @@ ("UK" :> 9) @@ ("US" :> 10)
StrLess(a, b) == IdRank[a] < IdRank[b]

\* The leaders, in the order of the leaders dictionary.  recent_actions holds
\* the keywords found as substrings of the recent-action texts, ally_count the
\* number of relationships whose text contains "ally".
leaders ==
  << [country |-> "US", personality_traits |-> {"combative", "transactional", "nationalist", "populist"},
      recent_actions |-> {"pressure"}, ally_count |-> 0, controversy_level |-> 90],
     [country |-> "RU", personality_traits |-> {"calculating", "authoritarian", "strategic", "ruthless"},
      recent_actions |-> {"invasion"}, ally_count |-> 1, controversy_level |-> 95],
     [country |-> "CN", personality_traits |-> {"authoritarian", "nationalist", "long-term planner", "centralizing"},
      recent_actions |-> {"pressure"}, ally_count |-> 1, controversy_level |-> 85],
     [country |-> "UA", personality_traits |-> {"charismatic", "resilient", "media-savvy", "determined"},
      recent_actions |-> {"invasion"}, ally_count |-> 1, controversy_level |-> 60],
     [country |-> "US", personality_traits |-> {"diplomatic", "experienced", "centrist", "compassionate"},
      recent_actions |-> {}, ally_count |-> 2, controversy_level |-> 70],
     [country |-> "FR", personality_traits |-> {"intellectual", "reformist", "Europeanist", "confident"},
      recent_actions |-> {}, ally_count |-> 1, controversy_level |-> 65],
     [country |-> "DE", personality_traits |-> {"cautious", "pragmatic", "consensus-builder", "reserved"},
      recent_actions |-> {}, ally_count |-> 1, controversy_level |-> 50],
     [country |-> "IN", personality_traits |-> {"nationalist", "charismatic", "reformist", "Hindu nationalist"},
      recent_actions |-> {}, ally_count |-> 0, controversy_level |-> 75],
     [country |-> "JP", personality_traits |-> {"diplomatic", "moderate", "consensus-builder", "experienced"},
      recent_actions |-> {}, ally_count |-> 1, controversy_level |-> 40] >>

\* The reference tables the engine may be started over: excerpts of the
\* curated table, in dictionary order.
Datasets == { <<"RU", "UK", "IR">>, <<"UK", "JP", "IL">> }

\* ------------------------------------------------------------------------
\* Doctrine derivation (pure functions of a leader profile)
\* ------------------------------------------------------------------------
B2N(b) == IF b THEN 1 ELSE 0

\* the derivation without its upper clamp
AggressionUnclamped(leader_data) ==
  50 + 20 * B2N("combative" \in leader_data.personality_traits)
     + 15 * B2N("authoritarian" \in leader_data.personality_traits)
     + 10 * B2N("nationalist" \in leader_data.personality_traits)
     + 25 * B2N("invasion" \in leader_data.recent_actions)
     + 15 * B2N("pressure" \in leader_data.recent_actions)

_calculate_aggression(leader_data) ==
  LET base_aggression ==
        50 + 20 * B2N("combative" \in leader_data.personality_traits)
           + 15 * B2N("authoritarian" \in leader_data.personality_traits)
           + 10 * B2N("nationalist" \in leader_data.personality_traits)
           + 25 * B2N("invasion" \in leader_data.recent_actions)
           + 15 * B2N("pressure" \in leader_data.recent_actions)
  IN  Min(100, Max(0, base_aggression))

_calculate_cooperation(leader_data) ==
  LET base_cooperation ==
        50 + 20 * B2N("diplomatic" \in leader_data.personality_traits)
           + 15 * B2N("consensus-builder" \in leader_data.personality_traits)
           + 10 * B2N("transactional" \in leader_data.personality_traits)
           + leader_data.ally_count * 5
  IN  Min(100, Max(0, base_cooperation))

\* int() truncates toward zero; base_risk is kept in tenths
TruncDiv(n, d) == IF n >= 0 THEN n \div d ELSE -((-n) \div d)

_calculate_risk_tolerance(leader_data) ==
  LET base_risk10 ==
        10 * (50 + 20 * B2N("ruthless" \in leader_data.personality_traits)
                 + 10 * B2N("strategic" \in leader_data.personality_traits)
                 - 15 * B2N("cautious" \in leader_data.personality_traits))
           + (leader_data.controversy_level - 50) * 3
  IN  Min(100, Max(0, TruncDiv(base_risk10, 10)))

Doctrine(leader_data) ==
  [ aggression_level  |-> _calculate_aggression(leader_data),
    cooperation_level |-> _calculate_cooperation(leader_data),
    risk_tolerance    |-> _calculate_risk_tolerance(leader_data) ]

\* ------------------------------------------------------------------------
\* Relation seeding
\* ------------------------------------------------------------------------
\* the seeding with the regime penalty applied in one direction only
RelationOneWayPenalty(country_a, country_b) ==
  LET same_bloc == country_a.bloc = country_b.bloc
      alliance_overlap == Cardinality(country_a.alliances \cap country_b.alliances)
      base_trust == IF same_bloc THEN 60
                    ELSE IF alliance_overlap > 0 THEN 40
                    ELSE 0
      adjusted ==
        IF country_a.regime_type = country_b.regime_type THEN base_trust + 20
        ELSE IF country_a.regime_type = "democracy" /\ country_b.regime_type = "authoritarian"
             THEN base_trust - 30
        ELSE base_trust
  IN  [ trust_level |-> adjusted,
        trade_volume |-> 0,
        military_cooperation |-> alliance_overlap * 20,
        diplomatic_relations |-> adjusted,
        historical_conflicts |-> << >> ]

_initialize_relation(country_a, country_b) ==
  LET same_bloc == country_a.bloc = country_b.bloc
      alliance_overlap == Cardinality(country_a.alliances \cap country_b.alliances)
      base_trust == IF same_bloc THEN 60
                    ELSE IF alliance_overlap > 0 THEN 40
                    ELSE 0
      adjusted ==
        IF country_a.regime_type = country_b.regime_type THEN base_trust + 20
        ELSE IF \/ (country_a.regime_type = "democracy" /\ country_b.regime_type = "authoritarian")
                \/ (country_a.regime_type = "authoritarian" /\ country_b.regime_type = "democracy")
             THEN base_trust - 30
        ELSE base_trust
  IN  [ trust_level |-> adjusted,
        trade_volume |-> 0,
        military_cooperation |-> alliance_overlap * 20,
        diplomatic_relations |-> adjusted,
        historical_conflicts |-> << >> ]

\* ------------------------------------------------------------------------
\* State
\* ------------------------------------------------------------------------
VARIABLES
  mode,           \* which harness drives the model
  country_data,   \* world_data_service.country_data: the ids, in dict order
  simulations,    \* WorldBrain.simulations: simulation id -> WorldState
  current_week,   \* WorldBrain.current_week
  tick_frame,     \* the running tick call: position and locals
  tick_result,    \* how the last tick call ended
  rng,            \* state of the process-wide random module
  tape,           \* the values the seeded generator yields, by position
  run,            \* replay harness: which of the two runs is executing
  seed_arg,       \* replay harness: the seed both runs pass
  trace1,         \* replay harness: what the first run produced
  arg,            \* pure-function harness: the input drawn
  ret,            \* pure-function harness: the result
  active_simulations,  \* PredictiveSimulationService.active_simulations
  run_frame,      \* the running _run_predictive_simulation task: its locals
  parked          \* the tick coroutines suspended at an await, with their locals

vars == << mode, country_data, simulations, current_week, tick_frame,
           tick_result, rng, tape, run, seed_arg, trace1, arg, ret,
           active_simulations, run_frame, parked >>

engine_vars == << country_data, simulations, current_week, tick_frame,
                  tick_result, rng, tape, parked >>
replay_vars == << run, seed_arg, trace1 >>
pure_vars   == << arg, ret >>
projector_vars == << active_simulations, run_frame >>
\* everything outside the interactive engine
harness_vars == << mode, run, seed_arg, trace1, arg, ret, active_simulations, run_frame >>

None == "None"
IdleFrame == [ pc |-> "idle", sim |-> None, i |-> 0,
               new_actions |-> << >>, new_outcomes |-> << >>, new_news |-> << >> ]

NoPredictions == [ id \in {} |-> 0 ]
IdleRun == [ pc |-> "idle", sim |-> None, current_date |-> 0, end_date |-> 0,
             timeline_events |-> << >>, world_states |-> << >> ]
ProjectorIdle == active_simulations = NoPredictions /\ run_frame = IdleRun

\* ------------------------------------------------------------------------
\* The random module.  A generator seeded with random.seed(s) yields a fixed
\* sequence, revealed on first use and recorded in tape; a generator never
\* seeded by the program runs from OS entropy and yields arbitrary values.
\* ------------------------------------------------------------------------
\* random.random() in hundredths: values that decide every comparison of
\* the code (< 0.2, < 0.3, < 0.5, < 0.7, < 0.9)
RandomDraws == {0, 25, 60, 95}
\* random.randint(-20, 20), the extremes
IntensityDraws == {-20, 20}
\* random.randint(-10, 10), the extremes and the middle
PerturbationDraws == {-10, 0, 10}
\* random.randint(0, n), the extremes
CasualtyDraws(n) == {0, n}

Seeded == rng.src = "seeded"

\* the values draw number p (counted from 0) may yield, out of D
Drawn(D, p) ==
  IF Seeded /\ p < Len(tape) /\ tape[p + 1] \in D THEN { tape[p + 1] } ELSE D

\* the generator after the draws ds
RngAfter(ds) == IF Seeded THEN [rng EXCEPT !.pos = @ + Len(ds)] ELSE rng
TapeAfter(ds) ==
  IF Seeded
  THEN SubSeq(tape, 1, rng.pos) \o ds \o SubSeq(tape, rng.pos + Len(ds) + 1, Len(tape))
  ELSE tape

\* draws whose values the model does not keep (texts, article dates, sources)
Skipped(n) == [k \in 1..n |-> 0]

\* ------------------------------------------------------------------------
\* initialize_world
\* ------------------------------------------------------------------------
SeqToSet(s) == { s[k] : k \in 1..Len(s) }

\* doctrines: the last leader of a country in the leaders table wins
doctrines_of(countries) ==
  LET ids == { c \in SeqToSet(countries) : \E k \in 1..Len(leaders) : leaders[k].country = c }
      last(c) == CHOOSE k \in 1..Len(leaders) :
                   /\ leaders[k].country = c
                   /\ \A j \in 1..Len(leaders) : leaders[j].country = c => j <= k
  IN  [ c \in ids |-> Doctrine(leaders[last(c)]) ]

\* the relations seeded for every ordered pair of distinct countries
RelationsBothOrders(countries) ==
  LET keys == { <<a, b>> \in SeqToSet(countries) \X SeqToSet(countries) : a # b }
  IN  [ key \in keys |-> _initialize_relation(country_table[key[1]], country_table[key[2]]) ]

relations_of(countries) ==
  LET keys == { <<a, b>> \in SeqToSet(countries) \X SeqToSet(countries) : StrLess(a, b) }
  IN  [ key \in keys |-> _initialize_relation(country_table[key[1]], country_table[key[2]]) ]

_create_map_state(countries, relations) ==
  LET tension(key) == Max(0, -relations[key].trust_level)
      RECURSIVE Sum(_)
      Sum(S) == IF S = {} THEN 0
                ELSE LET k == CHOOSE x \in S : TRUE IN tension(k) + Sum(S \ {k})
      relation_count == Cardinality(DOMAIN relations)
  IN  [ global_tension |-> Min(100, Sum(DOMAIN relations) \div (IF relation_count = 0 THEN 1 ELSE relation_count)),
        active_conflicts |-> { key \in DOMAIN relations : relations[key].trust_level < -50 } ]

NewsItem(origin, country, category, severity, reliability) ==
  [ origin |-> origin, country |-> country, category |-> category,
    severity |-> severity, reliability |-> reliability ]

_generate_initial_news ==
  << NewsItem("fallback", "Global", "diplomatic", "high", "confirmed"),
     NewsItem("fallback", "Global", "military", "high", "confirmed"),
     NewsItem("fallback", "Global", "military", "high", "confirmed"),
     NewsItem("fallback", "Global", "economic", "high", "confirmed"),
     NewsItem("fallback", "Global", "economic", "medium", "confirmed"),
     NewsItem("fallback", "Global", "cyber", "high", "likely") >>

\* the narration service as the engine reaches it: the import of the client
\* module fails, the credentials are missing, or the client is built and the
\* call of generate_psychohistorical_news, a method the client class does not
\* define, fails
NarratorStates == { "no_module", "no_credentials", "up" }

\* a client whose call goes out to the service when the client is built
NarrationCallReachesService(st) ==
  CASE st = "no_module"      -> "ImportError"
    [] st = "no_credentials" -> "ValueError"
    [] st = "up"             -> "ok"

NarrationCall(st) ==
  CASE st = "no_module"      -> "ImportError"
    [] st = "no_credentials" -> "ValueError"
    [] st = "up"             -> "AttributeError"

\* whether the coroutine yields to the event loop at
\* await chatgpt_service.generate_psychohistorical_news(...): only a call
\* that goes out to the service waits for input; get_chatgpt_service has no
\* await of its own, and a call that raises does so before it yields
Suspends(st) == NarrationCall(st) = "ok"

NewWorldState(countries) ==
  LET relations == relations_of(countries)
  IN  [ week_number |-> 1,
        countries   |-> countries,
        doctrines   |-> doctrines_of(countries),
        relations   |-> relations,
        actions     |-> << >>,
        outcomes    |-> << >>,
        news        |-> _generate_initial_news,
        map_states  |-> << _create_map_state(countries, relations) >> ]

initialize_world(simulation_id, seed) ==
  /\ tick_frame.pc = "idle"
  /\ rng' = IF Truthy(seed) THEN [src |-> "seeded", pos |-> 0] ELSE rng
  /\ simulations' = (simulation_id :> NewWorldState(country_data)) @@ simulations
  /\ UNCHANGED << country_data, current_week, tick_frame, tick_result, tape, parked >>
  /\ UNCHANGED harness_vars

\* ------------------------------------------------------------------------
\* tick: one step of the interactive engine, in the order of its statements
\* ------------------------------------------------------------------------
ActionTypes == << "diplomatic", "military", "economic", "cyber" >>

\* Action.success_probability, in hundredths
SuccessProbability == 70
\* thresholds of _generate_news and _generate_additional_news, in hundredths
AmbientChance == 20
FallbackAmbientChance == 30

WS == simulations[tick_frame.sim]
SetWS(ws) == [simulations EXCEPT ![tick_frame.sim] = ws]

\* the number of tick requests explored for one instance
TickBound == IF mode = "steps" THEN MaxSteps ELSE MaxTicks

\* tick, up to the call of _generate_actions
tick(simulation_id) ==
  /\ tick_frame.pc = "idle"
  /\ IF simulation_id \notin DOMAIN simulations
     THEN /\ tick_result' = "ValueError"
          /\ UNCHANGED << country_data, simulations, current_week, tick_frame, rng, tape, parked >>
     ELSE /\ simulations[simulation_id].week_number <= TickBound
          /\ current_week' = current_week + 1
          /\ simulations' = [simulations EXCEPT ![simulation_id].week_number = @ + 1]
          /\ tick_frame' = [IdleFrame EXCEPT !.pc = "generate", !.sim = simulation_id, !.i = 1]
          /\ tick_result' = "running"
          /\ UNCHANGED << country_data, rng, tape, parked >>
  /\ UNCHANGED harness_vars

potential_targets(countries, country) ==
  SelectSeq(countries, LAMBDA c : c # country)

\* an action whose id leaves out the number of actions recorded so far
CreateActionIdByActor(country, doctrine, world_state, ti, gi, d) ==
  LET targets == potential_targets(world_state.countries, country)
      intensity == Max(0, Min(100, doctrine.aggression_level + d))
  IN  [ id          |-> << 0, country >>,
        actor_id    |-> country,
        target_id   |-> targets[gi],
        action_type |-> ActionTypes[ti],
        intensity   |-> intensity,
        success_probability |-> SuccessProbability ]

\* id = f"action_{len(world_state.actions)}_{country.id}"
_create_action(country, doctrine, world_state, ti, gi, d) ==
  LET targets == potential_targets(world_state.countries, country)
      intensity == Max(0, Min(100, doctrine.aggression_level + d))
  IN  [ id          |-> << Len(world_state.actions), country >>,
        actor_id    |-> country,
        target_id   |-> targets[gi],
        action_type |-> ActionTypes[ti],
        intensity   |-> intensity,
        success_probability |-> SuccessProbability ]

\* the comparison with the draw included at the threshold
ShouldActInclusive(doctrine, r) == r <= doctrine.aggression_level

\* random.random() < doctrine.aggression_level / 100.0, the draw in hundredths
ShouldAct(doctrine, r) == r < doctrine.aggression_level

\* one pass of the loop of _generate_actions
_generate_actions ==
  /\ tick_frame.pc = "generate"
  /\ tick_frame.i <= Len(WS.countries)
  /\ LET country == WS.countries[tick_frame.i]
         p == rng.pos
     IN IF country \notin DOMAIN WS.doctrines
        THEN /\ tick_frame' = [tick_frame EXCEPT !.i = @ + 1]
             /\ UNCHANGED << rng, tape >>
        ELSE \E r \in Drawn(RandomDraws, p) :
               IF ShouldAct(WS.doctrines[country], r)
               THEN LET targets == potential_targets(WS.countries, country) IN
                    \E ti \in Drawn(1..Len(ActionTypes), p + 1) :
                      IF targets = << >>
                      THEN /\ tick_frame' = [tick_frame EXCEPT !.i = @ + 1]
                           /\ rng' = RngAfter(<< r, ti >>)
                           /\ tape' = TapeAfter(<< r, ti >>)
                      ELSE \E gi \in Drawn(1..Len(targets), p + 2) :
                           \E d \in Drawn(IntensityDraws, p + 3) :
                             LET action == _create_action(country, WS.doctrines[country], WS, ti, gi, d)
                                 ds == << r, ti, gi, d >> \o Skipped(4)
                             IN /\ tick_frame' = [tick_frame EXCEPT !.i = @ + 1,
                                                    !.new_actions = Append(@, action)]
                                /\ rng' = RngAfter(ds)
                                /\ tape' = TapeAfter(ds)
               ELSE /\ tick_frame' = [tick_frame EXCEPT !.i = @ + 1]
                    /\ rng' = RngAfter(<< r >>)
                    /\ tape' = TapeAfter(<< r >>)
  /\ UNCHANGED << country_data, simulations, current_week, tick_result, parked >>
  /\ UNCHANGED harness_vars

\* the new actions put in front of the history instead of at its end
ExtendActionsAtFront ==
  /\ tick_frame.pc = "generate"
  /\ tick_frame.i > Len(WS.countries)
  /\ simulations' = SetWS([WS EXCEPT !.actions = tick_frame.new_actions \o @])
  /\ tick_frame' = [tick_frame EXCEPT !.pc = "process", !.i = 1]
  /\ UNCHANGED << country_data, current_week, tick_result, rng, tape, parked >>
  /\ UNCHANGED harness_vars

\* world_state.actions.extend(new_actions)
extend_actions ==
  /\ tick_frame.pc = "generate"
  /\ tick_frame.i > Len(WS.countries)
  /\ simulations' = SetWS([WS EXCEPT !.actions = @ \o tick_frame.new_actions])
  /\ tick_frame' = [tick_frame EXCEPT !.pc = "process", !.i = 1]
  /\ UNCHANGED << country_data, current_week, tick_result, rng, tape, parked >>
  /\ UNCHANGED harness_vars

\* the halving rounded up instead of down
BaseMagnitudeRoundUp(intensity, success) ==
  IF success THEN intensity ELSE (intensity + 1) \div 2

\* the magnitude the resolver holds before the perturbation is added
BaseMagnitude(intensity, success) ==
  IF success THEN intensity ELSE intensity \div 2

\* the magnitude without its upper clamp
ImpactUnclamped(intensity, success, perturbation) ==
  Max(0, (IF success THEN intensity ELSE intensity \div 2) + perturbation)

ImpactMagnitude(intensity, success, perturbation) ==
  Max(0, Min(100, BaseMagnitude(intensity, success) + perturbation))

\* the outcome with a diplomatic impact whatever the category of its action
OutcomeAlwaysDiplomatic(action, success, perturbation, casualties) ==
  LET impact_magnitude == ImpactMagnitude(action.intensity, success, perturbation)
  IN  [ action_id        |-> action.id,
        success          |-> success,
        impact_magnitude |-> impact_magnitude,
        casualties       |-> IF action.action_type = "military" THEN casualties ELSE 0,
        economic_damage  |-> IF action.action_type = "economic" THEN impact_magnitude * 1000000 ELSE 0,
        diplomatic_impact |-> impact_magnitude,
        escalation_triggered |-> impact_magnitude > 70 ]

Outcome(action, success, perturbation, casualties) ==
  LET impact_magnitude == ImpactMagnitude(action.intensity, success, perturbation)
  IN  [ action_id        |-> action.id,
        success          |-> success,
        impact_magnitude |-> impact_magnitude,
        casualties       |-> IF action.action_type = "military" THEN casualties ELSE 0,
        economic_damage  |-> IF action.action_type = "economic" THEN impact_magnitude * 1000000 ELSE 0,
        diplomatic_impact |-> IF action.action_type = "diplomatic" THEN impact_magnitude ELSE 0,
        escalation_triggered |-> impact_magnitude > 70 ]

\* one pass of the loop of _process_actions
_process_actions ==
  /\ tick_frame.pc = "process"
  /\ tick_frame.i <= Len(tick_frame.new_actions)
  /\ LET action == tick_frame.new_actions[tick_frame.i]
         p == rng.pos
     IN \E r \in Drawn(RandomDraws, p) :
        \E pert \in Drawn(PerturbationDraws, p + 1) :
          LET success == r < action.success_probability
              impact == ImpactMagnitude(action.intensity, success, pert)
          IN IF action.action_type = "military"
             THEN \E cas \in Drawn(CasualtyDraws(impact * 100), p + 2) :
                    /\ tick_frame' = [tick_frame EXCEPT !.i = @ + 1,
                          !.new_outcomes = Append(@, Outcome(action, success, pert, cas))]
                    /\ rng' = RngAfter(<< r, pert, cas >>)
                    /\ tape' = TapeAfter(<< r, pert, cas >>)
             ELSE /\ tick_frame' = [tick_frame EXCEPT !.i = @ + 1,
                          !.new_outcomes = Append(@, Outcome(action, success, pert, 0))]
                  /\ rng' = RngAfter(<< r, pert >>)
                  /\ tape' = TapeAfter(<< r, pert >>)
  /\ UNCHANGED << country_data, simulations, current_week, tick_result, parked >>
  /\ UNCHANGED harness_vars

\* world_state.outcomes.extend(new_outcomes)
extend_outcomes ==
  /\ tick_frame.pc = "process"
  /\ tick_frame.i > Len(tick_frame.new_actions)
  /\ simulations' = SetWS([WS EXCEPT !.outcomes = @ \o tick_frame.new_outcomes])
  /\ tick_frame' = [tick_frame EXCEPT !.pc = "update", !.i = 1]
  /\ UNCHANGED << country_data, current_week, tick_result, rng, tape, parked >>
  /\ UNCHANGED harness_vars

\* the clamp with its upper bound left out
ClampLowerOnly(lo, hi, x) == Max(lo, x)

Clamp(lo, hi, x) == Max(lo, Min(hi, x))

\* f"{action.actor_id}_{action.target_id}"
relation_key(action) == << action.actor_id, action.target_id >>

\* next((a for a in world_state.actions if a.id == outcome.action_id), None)
ActionHits(actions, action_id) == { k \in 1..Len(actions) : actions[k].id = action_id }
FindAction(actions, action_id) ==
  actions[CHOOSE k \in ActionHits(actions, action_id) :
            \A j \in ActionHits(actions, action_id) : k <= j]

\* the relation table after the Relation Updater has taken one outcome
UpdatedRelations(world_state, outcome) ==
  IF ActionHits(world_state.actions, outcome.action_id) = {} THEN world_state.relations
  ELSE LET action == FindAction(world_state.actions, outcome.action_id) IN
       IF relation_key(action) \notin DOMAIN world_state.relations
       THEN world_state.relations
       ELSE LET trust == world_state.relations[relation_key(action)].trust_level
                moved == IF outcome.success THEN trust + outcome.diplomatic_impact
                         ELSE trust - outcome.diplomatic_impact
            IN  [world_state.relations EXCEPT
                   ![relation_key(action)].trust_level = Clamp(-100, 100, moved)]

\* one pass of the loop of _update_world_state
_update_world_state ==
  /\ tick_frame.pc = "update"
  /\ tick_frame.i <= Len(tick_frame.new_outcomes)
  /\ simulations' = SetWS([WS EXCEPT !.relations =
                              UpdatedRelations(WS, tick_frame.new_outcomes[tick_frame.i])])
  /\ tick_frame' = [tick_frame EXCEPT !.i = @ + 1]
  /\ UNCHANGED << country_data, current_week, tick_result, rng, tape, parked >>
  /\ UNCHANGED harness_vars

update_done ==
  /\ tick_frame.pc = "update"
  /\ tick_frame.i > Len(tick_frame.new_outcomes)
  /\ tick_frame' = [tick_frame EXCEPT !.pc = "news", !.i = 1]
  /\ UNCHANGED << country_data, simulations, current_week, tick_result, rng, tape, parked >>
  /\ UNCHANGED harness_vars

\* the local fallback article of one action and its outcome
_create_news_article(action, outcome) ==
  LET severity == IF outcome.success
                  THEN (IF outcome.impact_magnitude > 70 THEN "high" ELSE "medium")
                  ELSE "low"
      reliability == IF action.action_type = "cyber" THEN "uncertain"
                     ELSE IF outcome.impact_magnitude > 80 THEN "confirmed"
                     ELSE "likely"
  IN  NewsItem("fallback", action.actor_id, action.action_type, severity, reliability)

\* the article built from a response of the narration service
ServiceArticle(country, category) ==
  NewsItem("service", country, category, "medium", "likely")

\* _create_psychohistorical_news_article: the article and the number of draws
_create_psychohistorical_news_article(action, outcome, st) ==
  IF NarrationCall(st) = "ok"
  THEN [ item |-> ServiceArticle(action.actor_id, action.action_type), draws |-> 1 ]
  ELSE [ item |-> _create_news_article(action, outcome), draws |-> 2 ]

\* a narration asked for every outcome, whatever its impact
NewsworthyAny(outcome) == outcome.impact_magnitude >= 0

\* if outcome.impact_magnitude > 50: only important events are reported
Newsworthy(outcome) == outcome.impact_magnitude > 50

\* the list parked without its k-th entry
Unpark(k) == SubSeq(parked, 1, k - 1) \o SubSeq(parked, k + 1, Len(parked))

\* _generate_news: one pass of its loop over zip(actions, outcomes), or the
\* continuation of a tick suspended in it once the service has answered
_generate_news ==
  /\ IF tick_frame.pc = "idle"
     THEN parked # << >>
     ELSE tick_frame.pc = "news" /\ tick_frame.i <= Len(tick_frame.new_actions)
  /\ IF tick_frame.pc = "idle"
     THEN \E k \in 1..Len(parked) :
            LET f == parked[k] IN
              /\ parked' = Unpark(k)
              /\ rng' = RngAfter(Skipped(1))
              /\ tape' = TapeAfter(Skipped(1))
              /\ IF f.i <= Len(f.new_actions)
                 THEN LET action == f.new_actions[f.i]
                          item == ServiceArticle(action.actor_id, action.action_type)
                      IN /\ tick_frame' = [f EXCEPT !.i = @ + 1,
                                             !.new_news = Append(@, item)]
                         /\ UNCHANGED simulations
                 ELSE LET item == ServiceArticle("Global", "world_event")
                      IN /\ simulations' = [simulations EXCEPT ![f.sim].news =
                                              @ \o Append(f.new_news, item)]
                         /\ tick_frame' = [f EXCEPT !.pc = "map",
                                             !.new_news = Append(@, item)]
     ELSE LET action == tick_frame.new_actions[tick_frame.i]
              outcome == tick_frame.new_outcomes[tick_frame.i]
          IN /\ UNCHANGED simulations
             /\ IF Newsworthy(outcome)
                THEN \E st \in NarratorStates :
                       IF Suspends(st)
                       THEN /\ parked' = Append(parked, tick_frame)
                            /\ tick_frame' = IdleFrame
                            /\ UNCHANGED << rng, tape >>
                       ELSE LET art == _create_psychohistorical_news_article(action, outcome, st)
                            IN /\ tick_frame' = [tick_frame EXCEPT !.i = @ + 1,
                                                   !.new_news = Append(@, art.item)]
                               /\ rng' = RngAfter(Skipped(art.draws))
                               /\ tape' = TapeAfter(Skipped(art.draws))
                               /\ UNCHANGED parked
                ELSE /\ tick_frame' = [tick_frame EXCEPT !.i = @ + 1]
                     /\ UNCHANGED << rng, tape, parked >>
  /\ UNCHANGED << country_data, current_week, tick_result >>
  /\ UNCHANGED harness_vars

world_news_templates ==
  << NewsItem("fallback", "Global", "economic", "medium", "likely"),
     NewsItem("fallback", "Global", "military", "medium", "confirmed"),
     NewsItem("fallback", "Global", "cyber", "low", "likely") >>

\* the "occasional world news" of _generate_news, through
\* _generate_additional_psychohistorical_news and its fallback
\* _generate_additional_news, then world_state.news.extend(new_news)
ambient_news ==
  /\ tick_frame.pc = "news"
  /\ tick_frame.i > Len(tick_frame.new_actions)
  /\ LET p == rng.pos IN
     \E r \in Drawn(RandomDraws, p) :
       IF r < AmbientChance
       THEN \E st \in NarratorStates :
            IF Suspends(st)
            THEN LET ds == << r >> \o Skipped(1)
                 IN /\ parked' = Append(parked, tick_frame)
                    /\ tick_frame' = IdleFrame
                    /\ rng' = RngAfter(ds)
                    /\ tape' = TapeAfter(ds)
                    /\ UNCHANGED simulations
            ELSE \E r2 \in Drawn(RandomDraws, p + 1) :
                 IF r2 < FallbackAmbientChance
                 THEN \E t \in Drawn(1..Len(world_news_templates), p + 2) :
                      LET item == world_news_templates[t]
                          ds == << r, r2, t >> \o Skipped(1)
                      IN /\ simulations' = SetWS([WS EXCEPT !.news = @ \o Append(tick_frame.new_news, item)])
                         /\ tick_frame' = [tick_frame EXCEPT !.pc = "map", !.new_news = Append(@, item)]
                         /\ rng' = RngAfter(ds)
                         /\ tape' = TapeAfter(ds)
                         /\ UNCHANGED parked
                 ELSE /\ simulations' = SetWS([WS EXCEPT !.news = @ \o tick_frame.new_news])
                      /\ tick_frame' = [tick_frame EXCEPT !.pc = "map"]
                      /\ rng' = RngAfter(<< r, r2 >>)
                      /\ tape' = TapeAfter(<< r, r2 >>)
                      /\ UNCHANGED parked
       ELSE /\ simulations' = SetWS([WS EXCEPT !.news = @ \o tick_frame.new_news])
            /\ tick_frame' = [tick_frame EXCEPT !.pc = "map"]
            /\ rng' = RngAfter(<< r >>)
            /\ tape' = TapeAfter(<< r >>)
            /\ UNCHANGED parked
  /\ UNCHANGED << country_data, current_week, tick_result >>
  /\ UNCHANGED harness_vars

\* _create_map_state takes (countries, relations); tick passes (world_state)
MapStateParameters == 2
MapStateArgumentsInTick == 1

\* new_map_state = self._create_map_state(world_state); append; return
tick_map_state ==
  /\ tick_frame.pc = "map"
  /\ IF MapStateArgumentsInTick = MapStateParameters
     THEN /\ simulations' = SetWS([WS EXCEPT !.map_states =
                Append(@, _create_map_state(WS.countries, WS.relations))])
          /\ tick_result' = "returned"
     ELSE /\ tick_result' = "TypeError"
          /\ UNCHANGED simulations
  /\ tick_frame' = [IdleFrame EXCEPT !.sim = tick_frame.sim,
                      !.new_actions = tick_frame.new_actions,
                      !.new_outcomes = tick_frame.new_outcomes,
                      !.new_news = tick_frame.new_news]
  /\ UNCHANGED << country_data, current_week, rng, tape, parked >>
  /\ UNCHANGED harness_vars

\* ------------------------------------------------------------------------
\* The interactive engine: one simulation started without a seed
\* ------------------------------------------------------------------------
SimIds == { "s1" }
NoSimulations == [ id \in {} |-> 0 ]

EngineInit ==
  /\ country_data \in Datasets
  /\ simulations = NoSimulations
  /\ current_week = 0
  /\ tick_frame = IdleFrame
  /\ tick_result = "none"
  /\ rng = [src |-> "entropy", pos |-> 0]
  /\ tape = << >>
  /\ parked = << >>

HarnessIdle ==
  /\ run = 0 /\ seed_arg = NoneVal /\ trace1 = << >>
  /\ arg = << >> /\ ret = << >>
  /\ ProjectorIdle

Init ==
  /\ mode = "interactive"
  /\ EngineInit
  /\ HarnessIdle

InitializeWorld ==
  \E id \in SimIds :
    /\ id \notin DOMAIN simulations
    /\ initialize_world(id, NoneVal)

Tick == \E id \in SimIds : tick(id)

Next ==
  \/ InitializeWorld
  \/ Tick
  \/ _generate_actions
  \/ extend_actions
  \/ _process_actions
  \/ extend_outcomes
  \/ _update_world_state
  \/ update_done
  \/ _generate_news
  \/ ambient_news
  \/ tick_map_state

Spec == Init /\ [][Next]_vars

\* ------------------------------------------------------------------------
\* Properties of the interactive engine
\* ------------------------------------------------------------------------
\* the outcome the Relation Updater takes in the coming step, if any
Updating == tick_frame.pc = "update" /\ tick_frame.i <= Len(tick_frame.new_outcomes)
CurOutcome == tick_frame.new_outcomes[tick_frame.i]
CurAction == tick_frame.new_actions[tick_frame.i]
SignedImpact(outcome) ==
  IF outcome.success THEN outcome.diplomatic_impact ELSE -outcome.diplomatic_impact
InRange(lo, hi, x) == lo <= x /\ x <= hi

TrustInRange ==
  \A id \in DOMAIN simulations : \A key \in DOMAIN simulations[id].relations :
    InRange(-100, 100, simulations[id].relations[key].trust_level)

ClampIsNoOpInRange ==
  Updating =>
    \A key \in DOMAIN WS.relations :
      LET before == WS.relations[key].trust_level
          after  == simulations'[tick_frame.sim].relations[key].trust_level
      IN  (after # before /\ InRange(-100, 100, before + SignedImpact(CurOutcome)))
            => after = before + SignedImpact(CurOutcome)

\* C1: in the interactive engine every Relation's trust_level is within
\* [-100, 100] after initialization and after every update of every tick,
\* and an update whose result is already within the range is stored as it is.
C1_TrustWithinBounds == []TrustInRange /\ [][ClampIsNoOpInRange]_vars

\* C1 witness: the Relation Updater has taken a successful diplomatic outcome
\* that would have carried a trust of 80 beyond 100, and 100 is stored.
C1_Witness ==
  /\ tick_frame.pc = "news"
  /\ \E k \in 1..Len(tick_frame.new_outcomes) :
       /\ tick_frame.new_outcomes[k].success
       /\ tick_frame.new_outcomes[k].diplomatic_impact > 20
       /\ relation_key(tick_frame.new_actions[k]) \in DOMAIN WS.relations
       /\ WS.relations[relation_key(tick_frame.new_actions[k])].trust_level = 100

\* the one Relation record of the unordered pair {a, b}
PairKey(relations, a, b) == IF << a, b >> \in DOMAIN relations THEN << a, b >> ELSE << b, a >>

\* C2 (as claimed): whenever the Relation Updater takes an outcome whose action
\* has actor A and target T, the trust of the Relation of the unordered pair
\* {A, T} becomes clamp(trust +/- diplomatic_impact), whichever of the two is
\* the actor.
C2_UpdaterMovesPairTrust ==
  [][ Updating =>
        LET key == PairKey(WS.relations, CurAction.actor_id, CurAction.target_id)
            before == WS.relations[key].trust_level
            after  == simulations'[tick_frame.sim].relations[key].trust_level
        IN  after = Max(-100, Min(100, before + SignedImpact(CurOutcome))) ]_vars

\* C6 (as claimed): with the narration service failing on every call, no
\* exception escapes tick, and every narration item is a local fallback item.
C6_TickSurvivesNarratorOutage ==
  /\ tick_result \in { "none", "running", "returned", "ValueError" }
  /\ \A id \in DOMAIN simulations : \A k \in 1..Len(simulations[id].news) :
       simulations[id].news[k].origin = "fallback"

\* ------------------------------------------------------------------------
\* Harnesses for the pure functions: Init draws the input, one action applies
\* the function as its caller does.
\* ------------------------------------------------------------------------
EngineIdle ==
  /\ country_data = << >>
  /\ simulations = NoSimulations
  /\ current_week = 0
  /\ tick_frame = IdleFrame
  /\ tick_result = "none"
  /\ rng = [src |-> "entropy", pos |-> 0]
  /\ tape = << >>
  /\ parked = << >>
  /\ run = 0 /\ seed_arg = NoneVal /\ trace1 = << >>
  /\ ProjectorIdle

NotApplied == [ done |-> FALSE ]
PureFrame == UNCHANGED << mode, arg, engine_vars, replay_vars, projector_vars >>

\* --- Outcome Resolver: one pass of the loop of _process_actions ----------
ResolverInputs ==
  [ intensity : 0..100, success : BOOLEAN, perturbation : -10..10,
    action_type : { "diplomatic", "military" } ]

InitResolve ==
  /\ mode = "resolve"
  /\ arg \in ResolverInputs
  /\ ret = NotApplied
  /\ EngineIdle

Resolve ==
  /\ mode = "resolve" /\ ~ret.done
  /\ LET action == [ id |-> << 0, "RU" >>, actor_id |-> "RU", target_id |-> "UK",
                     action_type |-> arg.action_type, intensity |-> arg.intensity,
                     success_probability |-> SuccessProbability ]
     IN ret' = [ done |-> TRUE,
                 base |-> BaseMagnitude(arg.intensity, arg.success),
                 outcome |-> Outcome(action, arg.success, arg.perturbation, 0) ]
  /\ PureFrame

SpecResolve == InitResolve /\ [][Resolve]_vars

Resolved == mode = "resolve" /\ ret.done

\* C7: every Outcome of the Outcome Resolver has impact_magnitude within
\* [0, 100], for every intensity in 0..100, either success value and every
\* perturbation in -10..10.
C7_ImpactWithinBounds ==
  Resolved => InRange(0, 100, ret.outcome.impact_magnitude)

\* C7 witness: intensity 100, success and perturbation +10 have been resolved,
\* and the magnitude stored is 100 rather than 110.
C7_Witness ==
  /\ Resolved /\ arg.intensity = 100 /\ arg.success /\ arg.perturbation = 10
  /\ ret.outcome.impact_magnitude = 100

\* C8 (as claimed): the magnitude held before the perturbation on failure is
\* exactly half the magnitude held on success: twice it equals the intensity.
C8_FailureIsExactHalf ==
  (Resolved /\ ~arg.success) => 2 * ret.base = arg.intensity

\* C8 (amended): on failure the magnitude held before the perturbation is the
\* intensity halved and rounded down (twice it is the intensity when the
\* intensity is even and the intensity minus one when it is odd); on success
\* it is the intensity; intensity 80, failure, perturbation 0 yields 40.
C8_FailureIsFloorHalf ==
  Resolved =>
    /\ arg.success => ret.base = arg.intensity
    /\ ~arg.success => 2 * ret.base = arg.intensity - (arg.intensity % 2)
    /\ (arg.intensity = 80 /\ ~arg.success /\ arg.perturbation = 0)
         => ret.outcome.impact_magnitude = 40

\* C8 witness: an odd intensity, 81, has been resolved as a failure and the
\* magnitude held before the perturbation is 40.
C8_Witness ==
  Resolved /\ arg.intensity = 81 /\ ~arg.success /\ ret.base = 40

\* --- Doctrine derivation ---------------------------------------------------
\* ally relationships of a drawn profile
MaxAllies == 2

DoctrineTraits ==
  { "combative", "authoritarian", "nationalist", "diplomatic",
    "consensus-builder", "transactional", "ruthless", "strategic", "cautious" }

Profiles ==
  [ personality_traits : SUBSET DoctrineTraits,
    recent_actions : SUBSET { "invasion", "pressure" },
    ally_count : 0..MaxAllies,
    controversy_level : 0..100 ]

InitDoctrine ==
  /\ mode = "doctrine"
  /\ arg \in Profiles
  /\ ret = NotApplied
  /\ EngineIdle

\* Doctrine(...) as initialize_world builds it for a leader
DeriveDoctrine ==
  /\ mode = "doctrine" /\ ~ret.done
  /\ ret' = [ done |-> TRUE, doctrine |-> Doctrine(arg) ]
  /\ PureFrame

SpecDoctrine == InitDoctrine /\ [][DeriveDoctrine]_vars

\* C9: for every personality profile the derived aggression, cooperation and
\* risk tolerance are each within [0, 100]; the derivation reads the profile
\* only, so a profile has one Doctrine.
C9_DoctrineWithinBounds ==
  (mode = "doctrine" /\ ret.done) =>
    /\ InRange(0, 100, ret.doctrine.aggression_level)
    /\ InRange(0, 100, ret.doctrine.cooperation_level)
    /\ InRange(0, 100, ret.doctrine.risk_tolerance)

\* C9 witness: a profile whose deltas add up beyond 100 (aggression 135,
\* cooperation 105) has been derived and both values are stored as 100.
C9_Witness ==
  /\ mode = "doctrine" /\ ret.done
  /\ { "combative", "authoritarian", "nationalist", "diplomatic",
       "consensus-builder", "transactional" } \subseteq arg.personality_traits
  /\ arg.recent_actions = { "invasion", "pressure" }
  /\ arg.ally_count = 2
  /\ ret.doctrine.aggression_level = 100
  /\ ret.doctrine.cooperation_level = 100

\* --- Relation seeding ------------------------------------------------------
CountryProfiles ==
  [ bloc : { "Western", "Eastern", "Unknown" },
    alliances : SUBSET { "NATO", "BRICS" },
    regime_type : { "democracy", "authoritarian", "theocracy" } ]

InitSeed ==
  /\ mode = "seed"
  /\ arg \in [ a : CountryProfiles, b : CountryProfiles ]
  /\ ret = NotApplied
  /\ EngineIdle

SeedRelation ==
  /\ mode = "seed" /\ ~ret.done
  /\ ret' = [ done |-> TRUE, relation |-> _initialize_relation(arg.a, arg.b) ]
  /\ PureFrame

SpecSeed == InitSeed /\ [][SeedRelation]_vars

\* C10: the seeded trust is (60 if same bloc, else 40 if the alliance sets
\* intersect, else 0) plus 20 if the regime types are equal, minus 30 if one
\* is a democracy and the other authoritarian; identical bloc, alliance set
\* and regime type give 80.
C10_SeededTrust ==
  (mode = "seed" /\ ret.done) =>
    LET base == IF arg.a.bloc = arg.b.bloc THEN 60
                ELSE IF arg.a.alliances \cap arg.b.alliances # {} THEN 40 ELSE 0
        bonus == IF arg.a.regime_type = arg.b.regime_type THEN 20 ELSE 0
        malus == IF { arg.a.regime_type, arg.b.regime_type } = { "democracy", "authoritarian" }
                 THEN 30 ELSE 0
    IN  /\ ret.relation.trust_level = base + bonus - malus
        /\ arg.a = arg.b => ret.relation.trust_level = 80

\* C10 witness: two countries of different blocs whose alliance sets
\* intersect, a democracy and an authoritarian one, have been seeded: 40 - 30.
C10_Witness ==
  /\ mode = "seed" /\ ret.done
  /\ arg.a.bloc # arg.b.bloc
  /\ arg.a.alliances \cap arg.b.alliances # {}
  /\ arg.a.regime_type = "democracy" /\ arg.b.regime_type = "authoritarian"
  /\ ret.relation.trust_level = 10

\* ------------------------------------------------------------------------
\* The predictive projector (predictive_simulation_service.py).  Levels and
\* probabilities are in hundredths.  Dates are in ticks of the clock since
\* the run's start_date; the model's day is DayTicks ticks long, longer than
\* twice any interval between two readings of the clock in one call.
\* ------------------------------------------------------------------------
\* dict.get(key, default)
Get(d, key, default) == IF key \in DOMAIN d THEN d[key] ELSE default

EmptyDict == [ k \in {} |-> 0 ]

\* the fields of the baseline the projector reads
_get_current_world_state ==
  [ date |-> 0,
    countries |->
      [ US |-> [ economic_strength |-> 80, military_strength |-> 90,
                 diplomatic_influence |-> 80, nuclear_capability |-> TRUE ],
        CN |-> [ economic_strength |-> 90, military_strength |-> 70,
                 diplomatic_influence |-> 60, nuclear_capability |-> TRUE ],
        RU |-> [ economic_strength |-> 40, military_strength |-> 80,
                 diplomatic_influence |-> 50, nuclear_capability |-> TRUE ],
        EU |-> [ economic_strength |-> 80, military_strength |-> 60,
                 diplomatic_influence |-> 70, nuclear_capability |-> FALSE ],
        IR |-> [ economic_strength |-> 30, military_strength |-> 50,
                 diplomatic_influence |-> 40, nuclear_capability |-> TRUE ],
        IL |-> [ economic_strength |-> 70, military_strength |-> 80,
                 diplomatic_influence |-> 50, nuclear_capability |-> TRUE ],
        KP |-> [ economic_strength |-> 20, military_strength |-> 60,
                 diplomatic_influence |-> 20, nuclear_capability |-> TRUE ] ],
    alliances |-> [ SCO |-> { "CN", "RU", "IN", "PK", "UZ", "KG" } ],
    economic_indicators |-> [ global_gdp_growth |-> 3 ],
    world_stability_index |-> 60,
    nuclear_threat_level |-> 40 ]

\* the keys of historical_patterns, in dict order
historical_patterns ==
  << "ROMAN_DECLINE", "PERSIAN_EXPANSION", "BYZANTINE_DIPLOMACY",
     "MONGOL_CONQUEST", "OTTOMAN_DECLINE", "COLD_WAR_ESCALATION" >>

\* the stability test of the Roman pattern taken as: at most 0.6
PatternProbabilityStabilityInclusive(pattern, world_state) ==
  LET us_state == Get(world_state.countries, "US", EmptyDict)
      ir_state == Get(world_state.countries, "IR", EmptyDict)
      nuclear_countries ==
        { c \in DOMAIN world_state.countries :
            Get(world_state.countries[c], "nuclear_capability", FALSE) }
      base_probability ==
        CASE pattern = "ROMAN_DECLINE" ->
               50 + 20 * B2N(Get(us_state, "economic_strength", 80) < 70)
                  + 10 * B2N(Get(us_state, "military_strength", 90) < 80)
                  + 20 * B2N(world_state.world_stability_index <= 60)
          [] pattern = "COLD_WAR_ESCALATION" ->
               50 + 30 * B2N(world_state.nuclear_threat_level > 50)
                  + 20 * B2N(Cardinality(nuclear_countries) >= 3)
          [] pattern = "PERSIAN_EXPANSION" ->
               50 + 20 * B2N(Get(ir_state, "diplomatic_influence", 40) > 50)
                  + 20 * B2N("IR" \in Get(world_state.alliances, "SCO", {}))
          [] OTHER -> 50
  IN  Min(base_probability, 100)

_calculate_pattern_probability(pattern, world_state) ==
  LET us_state == Get(world_state.countries, "US", EmptyDict)
      ir_state == Get(world_state.countries, "IR", EmptyDict)
      nuclear_countries ==
        { c \in DOMAIN world_state.countries :
            Get(world_state.countries[c], "nuclear_capability", FALSE) }
      base_probability ==
        CASE pattern = "ROMAN_DECLINE" ->
               50 + 20 * B2N(Get(us_state, "economic_strength", 80) < 70)
                  + 10 * B2N(Get(us_state, "military_strength", 90) < 80)
                  + 20 * B2N(world_state.world_stability_index < 60)
          [] pattern = "COLD_WAR_ESCALATION" ->
               50 + 30 * B2N(world_state.nuclear_threat_level > 50)
                  + 20 * B2N(Cardinality(nuclear_countries) >= 3)
          [] pattern = "PERSIAN_EXPANSION" ->
               50 + 20 * B2N(Get(ir_state, "diplomatic_influence", 40) > 50)
                  + 20 * B2N("IR" \in Get(world_state.alliances, "SCO", {}))
          [] OTHER -> 50
  IN  Min(base_probability, 100)

_identify_active_patterns(world_state) ==
  SelectSeq([ i \in 1..Len(historical_patterns) |->
                [ pattern |-> historical_patterns[i],
                  probability |-> _calculate_pattern_probability(
                                    historical_patterns[i], world_state) ] ],
            LAMBDA p : p.probability > 30)

\* max(patterns, key=probability): the first of the most probable
MostProbable(patterns) ==
  LET best == CHOOSE i \in 1..Len(patterns) :
                /\ \A j \in 1..Len(patterns) :
                     patterns[j].probability <= patterns[i].probability
                /\ \A j \in 1..(i - 1) :
                     patterns[j].probability < patterns[i].probability
  IN  patterns[best]

NoEvent == [ date |-> 0, event_type |-> None, historical_pattern |-> None ]

RomanEventTypes ==
  << "ECONOMIC_COLLAPSE", "MILITARY_ESCALATION", "DIPLOMATIC_CRISIS", "ALLIANCE_SHIFT" >>

\* returns an event for the first two types only
_create_roman_decline_event(date, choice) ==
  IF RomanEventTypes[choice] \in { "ECONOMIC_COLLAPSE", "MILITARY_ESCALATION" }
  THEN [ date |-> date, event_type |-> RomanEventTypes[choice],
         historical_pattern |-> "ROMAN_DECLINE" ]
  ELSE NoEvent

_create_event_from_pattern(date, pattern, choice) ==
  CASE pattern = "ROMAN_DECLINE" -> _create_roman_decline_event(date, choice)
    [] pattern = "COLD_WAR_ESCALATION" ->
         [ date |-> date, event_type |-> "NUCLEAR_THREAT", historical_pattern |-> pattern ]
    [] pattern = "PERSIAN_EXPANSION" ->
         [ date |-> date, event_type |-> "TERRITORIAL_CONQUEST", historical_pattern |-> pattern ]
    [] OTHER ->
         [ date |-> date, event_type |-> "DIPLOMATIC_CRISIS", historical_pattern |-> pattern ]

_generate_next_event(date, world_state, choice) ==
  LET patterns == _identify_active_patterns(world_state)
  IN  IF patterns = << >> THEN NoEvent
      ELSE _create_event_from_pattern(date, MostProbable(patterns).pattern, choice)

\* whether _generate_next_event draws from the random module
DrawsEventType(world_state) ==
  LET patterns == _identify_active_patterns(world_state)
  IN  patterns # << >> /\ MostProbable(patterns).pattern = "ROMAN_DECLINE"

\* the update without min(1.0, ...) and max(0.0, ...)
ApplyEventUnclamped(current_state, event) ==
  LET new_state == [current_state EXCEPT !.date = event.date]
  IN  CASE event.event_type = "NUCLEAR_THREAT" ->
             [new_state EXCEPT
                !.nuclear_threat_level = @ + 20,
                !.world_stability_index = @ - 10]
        [] event.event_type = "ECONOMIC_COLLAPSE" ->
             [new_state EXCEPT
                !.economic_indicators.global_gdp_growth = Max(-5, @ - 2),
                !.world_stability_index = @ - 15]
        [] event.event_type = "MILITARY_ESCALATION" ->
             [new_state EXCEPT
                !.world_stability_index = @ - 10,
                !.nuclear_threat_level = @ + 10]
        [] OTHER -> new_state

\* the update with the growth indicator left without its floor
ApplyEventGrowthUnfloored(current_state, event) ==
  LET new_state == [current_state EXCEPT !.date = event.date]
  IN  CASE event.event_type = "NUCLEAR_THREAT" ->
             [new_state EXCEPT
                !.nuclear_threat_level = Min(100, @ + 20),
                !.world_stability_index = Max(0, @ - 10)]
        [] event.event_type = "ECONOMIC_COLLAPSE" ->
             [new_state EXCEPT
                !.economic_indicators.global_gdp_growth = @ - 2,
                !.world_stability_index = Max(0, @ - 15)]
        [] event.event_type = "MILITARY_ESCALATION" ->
             [new_state EXCEPT
                !.world_stability_index = Max(0, @ - 10),
                !.nuclear_threat_level = Min(100, @ + 10)]
        [] OTHER -> new_state

\* the projector's _update_world_state(current_state, event)
ApplyEvent(current_state, event) ==
  LET new_state == [current_state EXCEPT !.date = event.date]
  IN  CASE event.event_type = "NUCLEAR_THREAT" ->
             [new_state EXCEPT
                !.nuclear_threat_level = Min(100, @ + 20),
                !.world_stability_index = Max(0, @ - 10)]
        [] event.event_type = "ECONOMIC_COLLAPSE" ->
             [new_state EXCEPT
                !.economic_indicators.global_gdp_growth = Max(-5, @ - 2),
                !.world_stability_index = Max(0, @ - 15)]
        [] event.event_type = "MILITARY_ESCALATION" ->
             [new_state EXCEPT
                !.world_stability_index = Max(0, @ - 10),
                !.nuclear_threat_level = Min(100, @ + 10)]
        [] OTHER -> new_state

\* the check without the nuclear threshold
CheckEndWithoutNuclear(world_state) ==
  IF Get(world_state.economic_indicators, "global_gdp_growth", 0) < -10 THEN TRUE
  ELSE IF world_state.world_stability_index < 10 THEN TRUE
  ELSE FALSE

_check_end_conditions(world_state) ==
  IF world_state.nuclear_threat_level > 90 THEN TRUE
  ELSE IF Get(world_state.economic_indicators, "global_gdp_growth", 0) < -10 THEN TRUE
  ELSE IF world_state.world_stability_index < 10 THEN TRUE
  ELSE FALSE

\* the scenario read from the stability index first
EndScenarioStabilityFirst(final_state) ==
  IF final_state.world_stability_index < 10 THEN "Global Chaos"
  ELSE IF Get(final_state.economic_indicators, "global_gdp_growth", 0) < -10
       THEN "Economic Collapse"
  ELSE IF final_state.nuclear_threat_level > 90 THEN "Nuclear War"
  ELSE "Unknown End"

_determine_end_scenario(final_state) ==
  IF final_state.nuclear_threat_level > 90 THEN "Nuclear War"
  ELSE IF Get(final_state.economic_indicators, "global_gdp_growth", 0) < -10
       THEN "Economic Collapse"
  ELSE IF final_state.world_stability_index < 10 THEN "Global Chaos"
  ELSE "Unknown End"

\* random.randint(1, 30)
DayDraws == 1..30
\* random.choice over the four Roman event types, as an index
ChoiceDraws == 1..4
\* the loop runs while current_date < start_date + 3650 days
HorizonDays == 3650

\* the advance drawn one day short: random.randint(0, 29)
DaysAdvanceFromZero(timeline_events, d) ==
  IF timeline_events # << >> THEN d - 1 ELSE 1

\* days_advance = random.randint(1, 30) if timeline_events else 1
days_advance(timeline_events, d) ==
  IF timeline_events # << >> THEN d ELSE 1

PredictIds == { "p1" }

\* ticks in a day of the model
DayTicks == 8
\* ticks between the two datetime.now() readings of
\* create_observe_the_end_simulation (start_date, then the snapshot's date)
ClockOffsets == { 0, 1, 2 }

\* _get_current_world_state with IR an SCO member of diplomatic influence 0.6
PersianWorld ==
  [ _get_current_world_state EXCEPT
      !.countries.IR.diplomatic_influence = 60,
      !.alliances.SCO = @ \cup { "IR" } ]

\* the conditions a run starts from: the hard-coded baseline, and for the
\* query surface also a reading under which no end-condition ever fires
CurrentWorld ==
  IF mode = "query" THEN arg.world ELSE _get_current_world_state

\* the day advances enumerated: all of them, and for the query surface the
\* longest only
DayDrawsEnumerated == IF mode = "query" THEN { 30 } ELSE DayDraws

\* create_observe_the_end_simulation: registers the run and schedules the task
create_observe_the_end_simulation ==
  \E simulation_id \in PredictIds :
    /\ mode \in { "predict", "query" }
    /\ run_frame.pc = "idle"
    /\ simulation_id \notin DOMAIN active_simulations
    /\ \E eps \in ClockOffsets :
       LET initial_world_state == [ CurrentWorld EXCEPT !.date = 0 + eps ]
       IN  /\ active_simulations' =
                (simulation_id :>
                   [ start_date |-> 0, predicted_end_date |-> NoneVal,
                     end_scenario |-> None, timeline_events |-> << >>,
                     world_states |-> << initial_world_state >> ])
                @@ active_simulations
           /\ run_frame' =
                [ pc |-> "loop", sim |-> simulation_id, current_date |-> 0,
                  end_date |-> 0 + HorizonDays * DayTicks, timeline_events |-> << >>,
                  world_states |-> << initial_world_state >> ]
    /\ UNCHANGED << mode, arg, ret, engine_vars, replay_vars >>

\* one pass of the while loop of _run_predictive_simulation
_run_predictive_simulation ==
  /\ run_frame.pc = "loop"
  /\ run_frame.current_date < run_frame.end_date
  /\ LET current_date == run_frame.current_date
         last == run_frame.world_states[Len(run_frame.world_states)]
         drawsType == DrawsEventType(last)
         p == rng.pos
     IN  \E choice \in (IF drawsType THEN Drawn(ChoiceDraws, p) ELSE { 1 }) :
           LET next_event == _generate_next_event(current_date, last, choice)
               has_event == next_event.event_type # None
               timeline_events ==
                 IF has_event THEN Append(run_frame.timeline_events, next_event)
                 ELSE run_frame.timeline_events
               new_world_state == ApplyEvent(last, next_event)
               world_states ==
                 IF has_event THEN Append(run_frame.world_states, new_world_state)
                 ELSE run_frame.world_states
               ended == has_event /\ _check_end_conditions(new_world_state)
               choiceDraws == IF drawsType THEN << choice >> ELSE << >>
           IN  IF ended
               THEN /\ active_simulations' =
                         [active_simulations EXCEPT
                            ![run_frame.sim].predicted_end_date = current_date,
                            ![run_frame.sim].end_scenario =
                               _determine_end_scenario(new_world_state)]
                    /\ run_frame' = [run_frame EXCEPT
                                       !.pc = "after",
                                       !.timeline_events = timeline_events,
                                       !.world_states = world_states]
                    /\ rng' = RngAfter(choiceDraws)
                    /\ tape' = TapeAfter(choiceDraws)
               ELSE \E d \in (IF timeline_events # << >>
                              THEN Drawn(DayDrawsEnumerated, p + Len(choiceDraws))
                              ELSE { 1 }) :
                      LET dayDraws == IF timeline_events # << >> THEN << d >> ELSE << >>
                      IN  /\ run_frame' = [run_frame EXCEPT
                                 !.current_date = @ + days_advance(timeline_events, d) * DayTicks,
                                 !.timeline_events = timeline_events,
                                 !.world_states = world_states]
                          /\ rng' = RngAfter(choiceDraws \o dayDraws)
                          /\ tape' = TapeAfter(choiceDraws \o dayDraws)
                          /\ UNCHANGED active_simulations
  /\ UNCHANGED << mode, arg, ret, replay_vars, country_data, simulations,
                  current_week, tick_frame, tick_result, parked >>

\* after the loop: simulation.timeline_events / world_states = the locals
publish_results ==
  /\ \/ run_frame.pc = "after"
     \/ run_frame.pc = "loop" /\ ~(run_frame.current_date < run_frame.end_date)
  /\ active_simulations' =
       [active_simulations EXCEPT
          ![run_frame.sim].timeline_events = run_frame.timeline_events,
          ![run_frame.sim].world_states = run_frame.world_states]
  /\ run_frame' = IdleRun
  /\ UNCHANGED << mode, arg, ret, engine_vars, replay_vars >>

InitPredict ==
  /\ mode = "predict"
  /\ EngineIdle
  /\ arg = << >> /\ ret = << >>

NextPredict ==
  \/ create_observe_the_end_simulation
  \/ _run_predictive_simulation
  \/ publish_results

SpecPredict == InitPredict /\ [][NextPredict]_vars

StrictlyIncreasingDates(events) ==
  \A i \in 1..(Len(events) - 1) : events[i].date < events[i + 1].date

\* C4: within one predictive run, every TimelineEvent appended to the
\* timeline has a date strictly greater than the date of the event appended
\* before it, in the task's list and in the list published on the simulation.
C4_TimelineDatesIncrease ==
  /\ StrictlyIncreasingDates(run_frame.timeline_events)
  /\ \A id \in DOMAIN active_simulations :
       StrictlyIncreasingDates(active_simulations[id].timeline_events)

\* a published timeline of three events, the second appended after the
\* shortest advance and the third after the longest
C4_Witness ==
  /\ "p1" \in DOMAIN active_simulations
  /\ run_frame.pc = "idle"
  /\ LET events == active_simulations["p1"].timeline_events
     IN  /\ Len(events) = 3
         /\ events[2].date = events[1].date + 1 * DayTicks
         /\ events[3].date = events[2].date + 30 * DayTicks

\* --- End conditions: the check and the scenario, as the loop calls them ---
EndInputs ==
  [ nuclear : { 0, 40, 90, 91, 100 },
    has_growth : BOOLEAN,
    growth : { -20, -11, -10, -5, 3 },
    stability : { 0, 9, 10, 60 } ]

FinalState(in) ==
  [ _get_current_world_state EXCEPT
      !.nuclear_threat_level = in.nuclear,
      !.economic_indicators =
         IF in.has_growth THEN [ global_gdp_growth |-> in.growth ] ELSE EmptyDict,
      !.world_stability_index = in.stability ]

InitEnd ==
  /\ mode = "end"
  /\ arg \in EndInputs
  /\ ret = NotApplied
  /\ EngineIdle

EndRun ==
  /\ mode = "end" /\ ~ret.done
  /\ LET new_world_state == FinalState(arg)
         ended == _check_end_conditions(new_world_state)
     IN  ret' = [ done |-> TRUE,
                  ended |-> ended,
                  end_scenario |-> IF ended THEN _determine_end_scenario(new_world_state)
                                   ELSE None ]
  /\ PureFrame

SpecEnd == InitEnd /\ [][EndRun]_vars

EndedRun == mode = "end" /\ ret.done /\ ret.ended
NuclearCondition == arg.nuclear > 90
EconomicCondition == arg.has_growth /\ arg.growth < -10
StabilityCondition == arg.stability < 10

\* C5: when a run ends on an end-condition the recorded scenario follows
\* the precedence nuclear, economic, stability: nuclear war whenever the
\* nuclear condition holds (also with stability below 0.10), economic
\* collapse only when the nuclear condition is false, global chaos only
\* when both others are false.
C5_EndScenarioPrecedence ==
  EndedRun =>
    /\ NuclearCondition => ret.end_scenario = "Nuclear War"
    /\ ret.end_scenario = "Economic Collapse" => ~NuclearCondition /\ EconomicCondition
    /\ ret.end_scenario = "Global Chaos" =>
         ~NuclearCondition /\ ~EconomicCondition /\ StabilityCondition
    /\ ret.end_scenario \in { "Nuclear War", "Economic Collapse", "Global Chaos" }

\* nuclear and stability conditions both hold and nuclear war is recorded
C5_Witness ==
  /\ EndedRun
  /\ NuclearCondition /\ StabilityCondition
  /\ ret.end_scenario = "Nuclear War"

\* ------------------------------------------------------------------------
\* Replay: two runs over the same data, each started with
\* initialize_world(id, seed) for the same seed and advanced by MaxTicks
\* ticks.  The second run is a fresh process; the sequence a seeded
\* generator yields is the same in both.
\* ------------------------------------------------------------------------
\* the seed passed to initialize_world: zero and a non-zero integer
ReplaySeeds == { 0, 1 }

Trace(world_state) ==
  [ actions  |-> world_state.actions,
    outcomes |-> world_state.outcomes,
    trust    |-> [ k \in DOMAIN world_state.relations |->
                     world_state.relations[k].trust_level ] ]

InitReplay ==
  /\ mode = "replay"
  /\ EngineInit
  /\ run = 1 /\ seed_arg \in ReplaySeeds /\ trace1 = << >>
  /\ arg = << >> /\ ret = << >>
  /\ ProjectorIdle

ReplayInitializeWorld ==
  /\ mode = "replay"
  /\ "s1" \notin DOMAIN simulations
  /\ initialize_world("s1", seed_arg)

RunComplete ==
  /\ "s1" \in DOMAIN simulations
  /\ tick_frame.pc = "idle"
  /\ simulations["s1"].week_number > MaxTicks

\* the first run is over: keep what it produced and start a fresh process
SecondRun ==
  /\ mode = "replay" /\ run = 1 /\ RunComplete
  /\ trace1' = Trace(simulations["s1"])
  /\ run' = 2
  /\ simulations' = NoSimulations
  /\ current_week' = 0
  /\ tick_frame' = IdleFrame
  /\ tick_result' = "none"
  /\ rng' = [src |-> "entropy", pos |-> 0]
  /\ parked' = << >>
  /\ UNCHANGED << mode, seed_arg, arg, ret, country_data, tape, projector_vars >>

NextReplay ==
  \/ ReplayInitializeWorld
  \/ Tick
  \/ _generate_actions
  \/ extend_actions
  \/ _process_actions
  \/ extend_outcomes
  \/ _update_world_state
  \/ update_done
  \/ _generate_news
  \/ ambient_news
  \/ tick_map_state
  \/ SecondRun

SpecReplay == InitReplay /\ [][NextReplay]_vars

BothRunsComplete == mode = "replay" /\ run = 2 /\ RunComplete

\* C3: two runs initialized with the same seed over the same data and
\* advanced by the same number of ticks produce identical sequences of
\* Actions, Outcomes and Relation trust values, for every integer seed.
C3_SameSeedSameTrace ==
  BothRunsComplete => Trace(simulations["s1"]) = trace1

\* the same for the seeds initialize_world hands to random.seed
ReplayOfTruthySeed ==
  BothRunsComplete /\ Truthy(seed_arg) => Trace(simulations["s1"]) = trace1

\* ------------------------------------------------------------------------
\* Action Generator: one pass of the loop of _generate_actions for a country
\* whose doctrine, if it has one, carries a drawn aggression level
\* ------------------------------------------------------------------------
\* what the pass appends to the local list of actions
GeneratePass(country, world_state, r, ti, gi, d) ==
  IF country \notin DOMAIN world_state.doctrines THEN << >>
  ELSE IF ~ShouldAct(world_state.doctrines[country], r) THEN << >>
  ELSE IF potential_targets(world_state.countries, country) = << >> THEN << >>
  ELSE << _create_action(country, world_state.doctrines[country], world_state, ti, gi, d) >>

GeneratorInputs ==
  [ has_doctrine : BOOLEAN, aggression : 0..100, r : 0..99,
    ti : { 1, 4 }, gi : { 1, 2 }, d : IntensityDraws ]

\* the world of the pass: the first excerpt, its first country given the
\* drawn doctrine or none
GeneratorWorld(in) ==
  LET base == NewWorldState(<< "RU", "UK", "IR" >>)
      others == [ c \in DOMAIN base.doctrines \ { "RU" } |-> base.doctrines[c] ]
  IN  [ base EXCEPT !.doctrines =
          IF in.has_doctrine
          THEN ("RU" :> [ base.doctrines["RU"] EXCEPT !.aggression_level = in.aggression ])
               @@ others
          ELSE others ]

InitGenerate ==
  /\ mode = "generate"
  /\ arg \in GeneratorInputs
  /\ ret = NotApplied
  /\ EngineIdle

Generate ==
  /\ mode = "generate" /\ ~ret.done
  /\ ret' = [ done |-> TRUE,
              actions |-> GeneratePass("RU", GeneratorWorld(arg),
                                       arg.r, arg.ti, arg.gi, arg.d) ]
  /\ PureFrame

SpecGenerate == InitGenerate /\ [][Generate]_vars

Generated == mode = "generate" /\ ret.done

\* C11: a country with a Doctrine generates an action if and only if its
\* uniform draw is below aggression/100, and never more than one; a country
\* without a Doctrine generates none; a country with aggression 100 generates
\* exactly one action whatever the draw.
C11_ActsIffDrawBelowAggression ==
  Generated =>
    /\ Len(ret.actions) <= 1
    /\ Len(ret.actions) = 1 <=> (arg.has_doctrine /\ arg.r < arg.aggression)
    /\ ~arg.has_doctrine => ret.actions = << >>
    /\ (arg.has_doctrine /\ arg.aggression = 100) => Len(ret.actions) = 1
    /\ \A k \in 1..Len(ret.actions) : ret.actions[k].actor_id = "RU"

\* aggression 100 and the highest draw: one action is generated
C11_Witness ==
  /\ Generated
  /\ arg.has_doctrine /\ arg.aggression = 100 /\ arg.r = 99
  /\ Len(ret.actions) = 1

\* ------------------------------------------------------------------------
\* The query surface of the projector: the endpoints of main.py over
\* predictive_service.  The task of a run has no suspension point, so a
\* request is served before the task starts or after it has finished.
\* ------------------------------------------------------------------------
Abs(x) == IF x < 0 THEN -x ELSE x

\* None, as a value of the snapshot's shape
NoSnapshot == [ _get_current_world_state EXCEPT !.date = NoneVal ]
NoStatus == [ predicted_end_date |-> NoneVal, end_scenario |-> None,
              total_events |-> 0, total_world_states |-> 0, status |-> None ]

Response(op, id, date, status_code, events, world_state, status) ==
  [ done |-> TRUE, op |-> op, id |-> id, date |-> date, status_code |-> status_code,
    events |-> events, world_state |-> world_state, status |-> status ]

\* an HTTPException raised inside an endpoint's try block is caught by its
\* own `except Exception` clause and answered as 500
RaisedInTry(status_code) == 500

get_simulation_timeline(simulation_id) ==
  IF simulation_id \notin DOMAIN active_simulations THEN << >>
  ELSE active_simulations[simulation_id].timeline_events

\* the first snapshot, in list order, of the smallest distance to the date
get_world_state_at_date(simulation_id, date) ==
  IF simulation_id \notin DOMAIN active_simulations THEN NoSnapshot
  ELSE LET states == active_simulations[simulation_id].world_states
       IN  IF states = << >> THEN NoSnapshot
           ELSE LET closest ==
                      CHOOSE i \in 1..Len(states) :
                        /\ \A j \in 1..Len(states) :
                             Abs(states[j].date - date) >= Abs(states[i].date - date)
                        /\ \A j \in 1..(i - 1) :
                             Abs(states[j].date - date) > Abs(states[i].date - date)
                IN  states[closest]

QueryIds == { "p1", "p0" }
QueryDates == { 0, 1, 2, 15 * DayTicks, 40 * DayTicks }

TaskNotRunning ==
  \/ run_frame.pc = "idle"
  \/ /\ run_frame.pc = "loop"
     /\ run_frame.current_date = 0
     /\ run_frame.timeline_events = << >>
     /\ Len(run_frame.world_states) = 1

QueryFrame == UNCHANGED << mode, arg, engine_vars, replay_vars, projector_vars >>

\* GET /observe-the-end/{simulation_id}/timeline
timeline_endpoint ==
  \E simulation_id \in QueryIds :
    /\ mode = "query" /\ TaskNotRunning
    /\ ret' = Response("timeline", simulation_id, NoneVal, 200,
                       get_simulation_timeline(simulation_id), NoSnapshot, NoStatus)
    /\ QueryFrame

\* GET /observe-the-end/{simulation_id}/world-state/{date}
world_state_endpoint ==
  \E simulation_id \in QueryIds, date \in QueryDates :
    /\ mode = "query" /\ TaskNotRunning
    /\ LET world_state == get_world_state_at_date(simulation_id, date)
       IN  ret' = IF world_state = NoSnapshot
                  THEN Response("world_state", simulation_id, date, RaisedInTry(404),
                                << >>, NoSnapshot, NoStatus)
                  ELSE Response("world_state", simulation_id, date, 200,
                                << >>, world_state, NoStatus)
    /\ QueryFrame

\* GET /observe-the-end/{simulation_id}/status
get_simulation_status ==
  \E simulation_id \in QueryIds :
    /\ mode = "query" /\ TaskNotRunning
    /\ ret' = IF simulation_id \notin DOMAIN active_simulations
              THEN Response("status", simulation_id, NoneVal, RaisedInTry(404),
                            << >>, NoSnapshot, NoStatus)
              ELSE LET simulation == active_simulations[simulation_id]
                   IN  Response("status", simulation_id, NoneVal, 200, << >>, NoSnapshot,
                         [ predicted_end_date |-> simulation.predicted_end_date,
                           end_scenario |-> simulation.end_scenario,
                           total_events |-> Len(simulation.timeline_events),
                           total_world_states |-> Len(simulation.world_states),
                           status |-> IF simulation.predicted_end_date # NoneVal
                                      THEN "completed" ELSE "running" ])
    /\ QueryFrame

InitQuery ==
  /\ mode = "query"
  /\ arg \in [ world : { _get_current_world_state, PersianWorld } ]
  /\ ret = NotApplied
  /\ EngineIdle

NextQuery ==
  \/ create_observe_the_end_simulation
  \/ _run_predictive_simulation
  \/ publish_results
  \/ timeline_endpoint
  \/ world_state_endpoint
  \/ get_simulation_status
  \/ Tick

SpecQuery == InitQuery /\ [][NextQuery]_vars

\* a response has just been given
Answered(op) == mode = "query" /\ ret' # ret /\ ret'.op = op

\* the run of an id is over and no end-condition has fired: its task has
\* left the loop at the horizon
EndedAtHorizon(id) ==
  /\ id \in DOMAIN active_simulations
  /\ run_frame.pc = "idle"
  /\ active_simulations[id].predicted_end_date = NoneVal

C13_NearestSnapshotEarliestOnTies ==
  [][ (Answered("world_state") /\ ret'.id \in DOMAIN active_simulations) =>
        /\ ret'.status_code = 200
        /\ \E i \in 1..Len(active_simulations[ret'.id].world_states) :
             ret'.world_state = active_simulations[ret'.id].world_states[i]
        /\ \A i \in 1..Len(active_simulations[ret'.id].world_states) :
             LET other == active_simulations[ret'.id].world_states[i]
                 far == Abs(other.date - ret'.date)
                 near == Abs(ret'.world_state.date - ret'.date)
             IN  /\ near <= far
                 /\ near = far => ret'.world_state.date <= other.date ]_vars

\* C14: a request naming no simulation is answered with a not-found result
\* (404), never with an empty success or an internal error; tick on an
\* unknown id fails with its not-found error; the registries are unchanged.
C14_UnknownIdIsNotFound ==
  [][ /\ (mode = "query" /\ ret' # ret /\ ret'.id \notin DOMAIN active_simulations)
           => (ret'.status_code = 404 /\ UNCHANGED active_simulations)
      /\ (mode = "query" /\ tick_result' # tick_result)
           => (tick_result' = "ValueError" /\ UNCHANGED simulations) ]_vars

\* ------------------------------------------------------------------------
\* Shape of the relation table and of the action and outcome lists
\* ------------------------------------------------------------------------
OnePerPair(world_state) ==
  LET ids == SeqToSet(world_state.countries)
      keys == DOMAIN world_state.relations
  IN  /\ keys \subseteq ids \X ids
      /\ \A a \in ids : << a, a >> \notin keys
      /\ \A a \in ids : \A b \in ids \ { a } :
           (<< a, b >> \in keys) # (<< b, a >> \in keys)
      /\ 2 * Cardinality(keys) = Cardinality(ids) * (Cardinality(ids) - 1)

\* C15: after initialization over a country set and after any number of
\* ticks, the relation table holds exactly one record for every unordered
\* pair of distinct countries, n(n-1)/2 in all, and none pairing a country
\* with itself.
C15_OneRelationPerPair ==
  \A id \in DOMAIN simulations : OnePerPair(simulations[id])

\* a tick has run through its relation update and changed a trust value;
\* the table still holds its three records
C15_Witness ==
  /\ "s1" \in DOMAIN simulations
  /\ tick_frame.pc = "idle" /\ tick_result = "TypeError"
  /\ Cardinality(DOMAIN simulations["s1"].relations) = 3
  /\ \E key \in DOMAIN simulations["s1"].relations :
       simulations["s1"].relations[key].trust_level
         # relations_of(simulations["s1"].countries)[key].trust_level

\* ------------------------------------------------------------------------
\* Steps that follow one another: one instance, MaxSteps tick requests
\* ------------------------------------------------------------------------
InitSteps ==
  /\ mode = "steps"
  /\ EngineInit
  /\ HarnessIdle

NextSteps ==
  \/ InitializeWorld
  \/ Tick
  \/ _generate_actions
  \/ extend_actions
  \/ _process_actions
  \/ extend_outcomes
  \/ _update_world_state
  \/ update_done
  \/ _generate_news
  \/ ambient_news
  \/ tick_map_state

SpecSteps == InitSteps /\ [][NextSteps]_vars

\* no two entries of the action list carry the same id
UniqueActionIds(world_state) ==
  \A j, k \in 1..Len(world_state.actions) :
    world_state.actions[j].id = world_state.actions[k].id => j = k

\* the k-th outcome is the outcome of the k-th action
OutcomesFollowActions(world_state) ==
  /\ Len(world_state.outcomes) = Len(world_state.actions)
  /\ \A k \in 1..Len(world_state.outcomes) :
       world_state.outcomes[k].action_id = world_state.actions[k].id

\* C16: action ids are unique across all ticks of a simulation, and whenever
\* no tick is under way the outcome list has the length and the order of the
\* action list, each outcome carrying the id of the action at its position
C16_OutcomesMatchUniqueActions ==
  \A id \in DOMAIN simulations :
    /\ UniqueActionIds(simulations[id])
    /\ tick_frame.pc = "idle" => OutcomesFollowActions(simulations[id])

\* two ticks have finished and each of them recorded an action
C16_Witness ==
  /\ mode = "steps"
  /\ tick_frame.pc = "idle"
  /\ "s1" \in DOMAIN simulations
  /\ simulations["s1"].week_number = 3
  /\ Len(simulations["s1"].outcomes) >= 2
  /\ simulations["s1"].actions[1].id[1] # simulations["s1"].actions[Len(simulations["s1"].actions)].id[1]

\* ------------------------------------------------------------------------
\* Two instances held by the one WorldBrain of the process
\* ------------------------------------------------------------------------
SharedIds == { "s1", "s2" }
\* the seed argument of initialize_world: absent, or an integer
SharedSeeds == { NoneVal, 1 }

InitShared ==
  /\ mode = "shared"
  /\ EngineInit
  /\ HarnessIdle

SharedInitializeWorld ==
  \E id \in SharedIds : \E seed \in SharedSeeds :
    /\ id \notin DOMAIN simulations
    /\ initialize_world(id, seed)

\* tick requests for either instance, MaxTicks of them in all
SharedTick ==
  /\ current_week < MaxTicks
  /\ \E id \in SharedIds : tick(id)

NextShared ==
  \/ SharedInitializeWorld
  \/ SharedTick
  \/ _generate_actions
  \/ extend_actions
  \/ _process_actions
  \/ extend_outcomes
  \/ _update_world_state
  \/ update_done
  \/ _generate_news
  \/ ambient_news
  \/ tick_map_state

SpecShared == InitShared /\ [][NextShared]_vars

\* the coming step belongs to a tick on the instance id
StepOfTickOn(id) ==
  IF tick_frame.pc = "idle"
  THEN tick_frame'.pc # "idle" /\ tick_frame'.sim = id
  ELSE tick_frame.sim = id

\* C17: a step of a tick on one instance leaves alone what another instance
\* reads or writes: the other instance's world state, the step counter and
\* the generator its future draws come from
C17_TickLeavesOtherInstanceAlone ==
  [][ \A id \in SharedIds : \A other \in SharedIds \ { id } :
        (StepOfTickOn(id) /\ other \in DOMAIN simulations)
          => /\ other \in DOMAIN simulations'
             /\ simulations'[other] = simulations[other]
             /\ current_week' = current_week
             /\ rng' = rng ]_vars

\* ------------------------------------------------------------------------
\* The local fallback narration, applied to one action and its outcome
\* ------------------------------------------------------------------------
NarrationInputs ==
  [ action_type : SeqToSet(ActionTypes), success : BOOLEAN, impact_magnitude : 0..100 ]

InitNarrate ==
  /\ mode = "narrate"
  /\ arg \in NarrationInputs
  /\ ret = NotApplied
  /\ EngineIdle

Narrate ==
  /\ mode = "narrate" /\ ~ret.done
  /\ LET action == [ actor_id |-> "RU", target_id |-> "UK",
                     action_type |-> arg.action_type ]
         outcome == [ success |-> arg.success,
                      impact_magnitude |-> arg.impact_magnitude ]
     IN ret' = [ done |-> TRUE, item |-> _create_news_article(action, outcome) ]
  /\ PureFrame

SpecNarrate == InitNarrate /\ [][Narrate]_vars

Narrated == mode = "narrate" /\ ret.done

\* the values a narration-service response may carry
ResponseSeverities == { "high", "medium", "low" }
ResponseReliabilities == { "confirmed", "likely", "unconfirmed" }

\* C18: every item of the local fallback has the fields of an article built
\* from a narration-service response, severity one of high, medium, low and
\* reliability one of confirmed, likely, unconfirmed, for every action
\* category, success value and impact magnitude
C18_FallbackHasResponseShape ==
  Narrated =>
    /\ DOMAIN ret.item = DOMAIN ServiceArticle("RU", arg.action_type)
    /\ ret.item.severity \in ResponseSeverities
    /\ ret.item.reliability \in ResponseReliabilities

\* ------------------------------------------------------------------------
\* The snapshot history of an interactive instance
\* ------------------------------------------------------------------------
\* the ticks the instance has been advanced by: week_number starts at 1
TicksTaken(world_state) == world_state.week_number - 1

\* C20: every step ends by appending exactly one map snapshot, so that an
\* instance no tick of which is under way holds one snapshot more than the
\* ticks it has taken
C20_OneSnapshotPerStep ==
  \A id \in DOMAIN simulations :
    tick_frame.pc = "idle" =>
      Len(simulations[id].map_states) = TicksTaken(simulations[id]) + 1

\* ------------------------------------------------------------------------
\* The order of the steps of one instance under concurrent tick requests
\* ------------------------------------------------------------------------
\* the steps of the instance id that have begun and not ended: the one the
\* event loop is running and those suspended at an await
StepsInProgress(id) ==
  (IF tick_frame.pc # "idle" /\ tick_frame.sim = id THEN 1 ELSE 0)
    + Cardinality({ k \in 1..Len(parked) : parked[k].sim = id })

\* C19: the steps of one instance execute strictly in order, whatever the
\* arrival of tick requests: at no time have two steps of an instance begun
\* and not ended, so that no step generates actions before the step before it
\* has updated the relations, and the phases of two steps never interleave
C19_StepsStrictlyInOrder ==
  \A id \in DOMAIN simulations : StepsInProgress(id) <= 1

\* a second step of the instance is under way after the first step asked for
\* the narration of one of its outcomes
C19_Witness ==
  /\ mode = "steps"
  /\ "s1" \in DOMAIN simulations
  /\ simulations["s1"].week_number = 3
  /\ tick_frame.pc = "update" /\ tick_frame.sim = "s1"
  /\ \E k \in 1..Len(simulations["s1"].news) :
       simulations["s1"].news[k].country # "Global"

\* ------------------------------------------------------------------------
\* The volume of narration of one tick
\* ------------------------------------------------------------------------
\* the outcomes of the list whose impact_magnitude is greater than 50
HighImpact(outcomes) ==
  Cardinality({ k \in 1..Len(outcomes) : outcomes[k].impact_magnitude > 50 })

\* the news items of the list that tell of an action of a country
ActionNews(news) ==
  Cardinality({ k \in 1..Len(news) : news[k].country # "Global" })

\* C21: in one tick a narration of an action is made only for an outcome
\* with impact_magnitude greater than 50 and at most one ambient item is
\* added, so the news a tick has gathered, and the news it appends to the
\* world state, never exceed the number of its outcomes above 50 plus one
C21_NarrationVolumeBounded ==
  /\ [](/\ ActionNews(tick_frame.new_news) <= HighImpact(tick_frame.new_outcomes)
        /\ Len(tick_frame.new_news) <= HighImpact(tick_frame.new_outcomes) + 1)
  /\ [][ \A id \in DOMAIN simulations :
           Len(simulations'[id].news) - Len(simulations[id].news)
             <= HighImpact(tick_frame.new_outcomes) + 1 ]_vars

\* a tick has ended with an outcome above 50, its narration and the ambient
\* item
C21_Witness ==
  /\ mode = "interactive"
  /\ tick_frame.pc = "idle"
  /\ HighImpact(tick_frame.new_outcomes) = 1
  /\ ActionNews(tick_frame.new_news) = 1
  /\ Len(tick_frame.new_news) = 2
  /\ "s1" \in DOMAIN simulations
  /\ Len(simulations["s1"].news) = Len(_generate_initial_news) + 2

\* ------------------------------------------------------------------------
\* One pass of the projector loop, for a latest WorldState drawn from the
\* readings the pattern scores tell apart
\* ------------------------------------------------------------------------
IterationInputs ==
  [ stability : { 50, 60 }, nuclear : { 40, 60 },
    us_economic : { 60, 80 }, us_military : { 70, 90 },
    ir_influence : { 40, 60 }, ir_in_sco : BOOLEAN, disarmed : BOOLEAN ]

\* the baseline with the fields of the input put in
LatestWorld(in) ==
  [ _get_current_world_state EXCEPT
      !.world_stability_index = in.stability,
      !.nuclear_threat_level = in.nuclear,
      !.countries.US.economic_strength = in.us_economic,
      !.countries.US.military_strength = in.us_military,
      !.countries.IR.diplomatic_influence = in.ir_influence,
      !.countries =
         IF in.disarmed
         THEN [ c \in DOMAIN @ |->
                  [ @[c] EXCEPT !.nuclear_capability = @ /\ c \in { "US", "RU" } ] ]
         ELSE @,
      !.alliances.SCO = IF in.ir_in_sco THEN @ \cup { "IR" } ELSE @ ]

InitIterate ==
  /\ mode = "iterate"
  /\ arg \in IterationInputs
  /\ ret = NotApplied
  /\ EngineIdle

\* the body of the while loop up to the check of the end conditions, with
\* world_states = [the latest WorldState] and no event so far
Iterate ==
  /\ mode = "iterate" /\ ~ret.done
  /\ LET last == LatestWorld(arg)
     IN \E choice \in (IF DrawsEventType(last) THEN ChoiceDraws ELSE { 1 }) :
          LET next_event == _generate_next_event(0, last, choice)
              has_event == next_event.event_type # None
          IN ret' = [ done |-> TRUE,
                      timeline_events |->
                        IF has_event THEN << next_event >> ELSE << >>,
                      world_states |->
                        IF has_event THEN << last, ApplyEvent(last, next_event) >>
                        ELSE << last >> ]
  /\ PureFrame

SpecIterate == InitIterate /\ [][Iterate]_vars

Iterated == mode = "iterate" /\ ret.done

EventTypes ==
  { "NUCLEAR_THREAT", "ECONOMIC_COLLAPSE", "MILITARY_ESCALATION",
    "TERRITORIAL_CONQUEST", "DIPLOMATIC_CRISIS" }

\* the number of events applied in a row
MaxEvents == 7

InitEvents ==
  /\ mode = "events"
  /\ arg = << >>
  /\ ret = [ timeline_events |-> << >>,
             world_states |-> << _get_current_world_state >> ]
  /\ EngineIdle

\* timeline_events.append(next_event);
\* new_world_state = _update_world_state(world_states[-1], next_event);
\* world_states.append(new_world_state)
UpdateByEvent ==
  /\ mode = "events"
  /\ Len(ret.world_states) <= MaxEvents
  /\ \E event_type \in EventTypes :
       LET last == ret.world_states[Len(ret.world_states)]
           event == [ date |-> Len(ret.world_states) * DayTicks,
                      event_type |-> event_type, historical_pattern |-> None ]
       IN ret' = [ timeline_events |-> Append(ret.timeline_events, event),
                   world_states |-> Append(ret.world_states, ApplyEvent(last, event)) ]
  /\ PureFrame

SpecEvents == InitEvents /\ [][UpdateByEvent]_vars

\* C23: in every WorldState of the history, after any sequence of events,
\* nuclear_threat_level and world_stability_index are within [0, 1]
C23_LevelsWithinUnitRange ==
  mode = "events" =>
    \A k \in 1..Len(ret.world_states) :
      /\ InRange(0, 100, ret.world_states[k].nuclear_threat_level)
      /\ InRange(0, 100, ret.world_states[k].world_stability_index)

\* both levels have met their bound: the threat at 1, the stability at 0
C23_Witness ==
  /\ mode = "events"
  /\ Len(ret.world_states) >= 2
  /\ LET last == ret.world_states[Len(ret.world_states)]
         before == ret.world_states[Len(ret.world_states) - 1]
     IN  /\ last.nuclear_threat_level = 100 /\ before.nuclear_threat_level = 90
         /\ last.world_stability_index = 0 /\ before.world_stability_index = 5

\* C28: in every WorldState derived from the baseline global_gdp_growth is
\* at least -0.05, so the economic end-condition (growth below -0.10) does
\* not hold and no end is told as the economic collapse
C28_GrowthNeverBelowFloor ==
  mode = "events" =>
    \A k \in 1..Len(ret.world_states) :
      LET world_state == ret.world_states[k]
      IN  /\ world_state.economic_indicators.global_gdp_growth >= -5
          /\ ~(Get(world_state.economic_indicators, "global_gdp_growth", 0) < -10)
          /\ _check_end_conditions(world_state)
               => _determine_end_scenario(world_state) # "Economic Collapse"

\* the growth indicator held at its floor by a further economic event, in a
\* history that ends on an end-condition
C28_Witness ==
  /\ mode = "events"
  /\ Len(ret.world_states) >= 3
  /\ LET n == Len(ret.world_states)
     IN  /\ ret.world_states[n - 1].economic_indicators.global_gdp_growth = -5
         /\ ret.timeline_events[n - 1].event_type = "ECONOMIC_COLLAPSE"
         /\ ret.world_states[n].economic_indicators.global_gdp_growth = -5
         /\ _check_end_conditions(ret.world_states[n])

\* ------------------------------------------------------------------------
\* Termination of a predictive run.  The task made by asyncio.create_task
\* is run by the event loop and never waits for input, so each pass of its
\* loop and the statements after the loop are taken once they can be.
\* ------------------------------------------------------------------------
InitRuns == InitPredict \/ InitQuery

\* the loop can make a pass: while current_date < end_date
LoopCanPass == run_frame.pc = "loop" /\ run_frame.current_date < run_frame.end_date

\* weak fairness of the statements after the loop, and of the pass of the
\* loop with its enabling condition written out
SpecRuns ==
  /\ InitRuns
  /\ [][NextQuery]_vars
  /\ WF_vars(publish_results)
  /\ ([]<>~LoopCanPass \/ []<><<_run_predictive_simulation>>_vars)

\* a pass of the loop that is followed by another pass
PassGoesOn == run_frame.pc = "loop" /\ run_frame'.pc = "loop" /\ run_frame' # run_frame

\* C24: every predictive run terminates: a run whose task is in its loop
\* comes to its end, by an end-condition or at the horizon, because every
\* pass that does not end the run advances the clock by at least one day and
\* at most 30 days toward the fixed horizon
C24_RunTerminates ==
  /\ (run_frame.pc = "loop") ~> (run_frame.pc = "idle")
  /\ [][ PassGoesOn =>
           /\ run_frame'.end_date = run_frame.end_date
           /\ run_frame'.current_date - run_frame.current_date >= 1 * DayTicks
           /\ run_frame'.current_date - run_frame.current_date <= 30 * DayTicks ]_vars

\* a run has left its loop at the horizon, after more than a hundred passes,
\* and its results are published
C24_Witness ==
  /\ mode = "query"
  /\ EndedAtHorizon("p1")
  /\ Len(active_simulations["p1"].timeline_events) > 100

\* ------------------------------------------------------------------------
\* The fields of a seeded Relation other than trust
\* ------------------------------------------------------------------------
\* C25: a freshly seeded Relation has trade volume, military cooperation and
\* diplomatic relations all zero and no historical conflicts, for every pair
\* of countries; only trust is derived from bloc, alliances and regime
C25_SeededRelationOtherwiseZero ==
  (mode = "seed" /\ ret.done) =>
    /\ ret.relation.trade_volume = 0
    /\ ret.relation.military_cooperation = 0
    /\ ret.relation.diplomatic_relations = 0
    /\ ret.relation.historical_conflicts = << >>

\* ------------------------------------------------------------------------
\* The end of a predictive run on an end-condition
\* ------------------------------------------------------------------------
\* an end-condition holds in the WorldState: nuclear threat above 0.9, growth
\* below -0.10 or stability below 0.1
EndConditionHolds(world_state) ==
  \/ world_state.nuclear_threat_level > 90
  \/ Get(world_state.economic_indicators, "global_gdp_growth", 0) < -10
  \/ world_state.world_stability_index < 10

\* a WorldState of the history in which an end-condition holds is the last
\* one, and it is the one derived from the last event
StopsAtOnce(timeline_events, world_states) ==
  \A k \in 1..Len(world_states) :
    EndConditionHolds(world_states[k]) =>
      /\ k = Len(world_states)
      /\ k = Len(timeline_events) + 1
      /\ world_states[k].date = timeline_events[k - 1].date

\* C26: when an end-condition holds in the WorldState derived from an event
\* the run stops at once: the event is the last of the timeline, no further
\* WorldState is appended, and predicted_end_date is the date of that event
C26_EndConditionStopsRun ==
  /\ StopsAtOnce(run_frame.timeline_events, run_frame.world_states)
  /\ \A id \in DOMAIN active_simulations :
       LET simulation == active_simulations[id]
           events == simulation.timeline_events
           states == simulation.world_states
       IN  /\ StopsAtOnce(events, states)
           /\ (run_frame.pc = "idle" /\ EndConditionHolds(states[Len(states)]))
                => simulation.predicted_end_date = events[Len(events)].date
           /\ (run_frame.pc = "after" /\ run_frame.sim = id)
                => /\ EndConditionHolds(run_frame.world_states[Len(run_frame.world_states)])
                   /\ simulation.predicted_end_date =
                        run_frame.timeline_events[Len(run_frame.timeline_events)].date

\* a published run that ended on its third event, the first to bring an
\* end-condition about, on the day of that event
C26_Witness ==
  /\ mode = "predict"
  /\ run_frame.pc = "idle"
  /\ "p1" \in DOMAIN active_simulations
  /\ LET simulation == active_simulations["p1"]
     IN  /\ Len(simulation.timeline_events) = 3
         /\ Len(simulation.world_states) = 4
         /\ EndConditionHolds(simulation.world_states[4])
         /\ ~EndConditionHolds(simulation.world_states[3])
         /\ simulation.predicted_end_date = simulation.timeline_events[3].date
         /\ simulation.predicted_end_date > 0

\* ------------------------------------------------------------------------
\* The histories of both modes: an interactive instance taking MaxSteps
\* ticks, or a predictive run from its creation to its publication
\* ------------------------------------------------------------------------
InitHistory == InitSteps \/ InitPredict

NextHistory ==
  \/ mode = "steps" /\ NextSteps
  \/ mode = "predict" /\ NextPredict

SpecHistory == InitHistory /\ [][NextHistory]_vars

\* new keeps old as its beginning
Extends(old, new) ==
  /\ Len(new) >= Len(old)
  /\ SubSeq(new, 1, Len(old)) = old

InstanceHistoryKept ==
  \A id \in DOMAIN simulations :
    /\ id \in DOMAIN simulations'
    /\ Extends(simulations[id].actions, simulations'[id].actions)
    /\ Extends(simulations[id].outcomes, simulations'[id].outcomes)
    /\ Extends(simulations[id].map_states, simulations'[id].map_states)

RunHistoryKept ==
  /\ \A id \in DOMAIN active_simulations :
       /\ id \in DOMAIN active_simulations'
       /\ Extends(active_simulations[id].timeline_events,
                  active_simulations'[id].timeline_events)
       /\ Extends(active_simulations[id].world_states,
                  active_simulations'[id].world_states)
  /\ run_frame'.pc # "idle" =>
       /\ Extends(run_frame.timeline_events, run_frame'.timeline_events)
       /\ Extends(run_frame.world_states, run_frame'.world_states)

\* C27: every step of either mode, an interactive tick's or a predictive
\* run's, keeps every Action, Outcome, TimelineEvent and snapshot appended
\* before it as it was and in its place, and only adds at the end of the
\* lists
C27_HistoryAppendOnly == [][InstanceHistoryKept /\ RunHistoryKept]_vars

\* a second tick has added its action and outcome behind those of the first
C27_Witness ==
  /\ mode = "steps"
  /\ "s1" \in DOMAIN simulations
  /\ tick_frame.pc = "idle"
  /\ simulations["s1"].week_number = 3
  /\ Len(simulations["s1"].actions) = 2
  /\ Len(simulations["s1"].outcomes) = 2

\* ------------------------------------------------------------------------
\* The run from the built-in baseline
\* ------------------------------------------------------------------------
\* the pattern _generate_next_event selects in world_state
Selected(world_state) == MostProbable(_identify_active_patterns(world_state)).pattern

\* the events are nuclear threats of the cold-war pattern, at most three, and
\* the k-th of them has raised the threat to 0.4 + 0.2 k
ColdWarLadder(timeline_events, world_states) ==
  /\ Len(timeline_events) <= 3
  /\ Len(world_states) = Len(timeline_events) + 1
  /\ world_states[1].nuclear_threat_level = 40
  /\ \A k \in 1..Len(timeline_events) :
       /\ timeline_events[k].event_type = "NUCLEAR_THREAT"
       /\ timeline_events[k].historical_pattern = "COLD_WAR_ESCALATION"
       /\ world_states[k + 1].nuclear_threat_level = 40 + 20 * k

\* C29: from the built-in baseline every predictive run selects the
\* cold-war-escalation pattern at every step, appends exactly three
\* nuclear-threat events raising the threat to 0.6, 0.8 and 1.0, and ends
\* with the nuclear-war scenario before the horizon, whatever day advances
\* are drawn
C29_BaselineEndsInNuclearWar ==
  mode = "predict" =>
    /\ run_frame.pc # "idle" =>
         ColdWarLadder(run_frame.timeline_events, run_frame.world_states)
    /\ run_frame.pc = "loop" =>
         /\ run_frame.current_date < run_frame.end_date
         /\ Len(run_frame.timeline_events) < 3
         /\ Selected(run_frame.world_states[Len(run_frame.world_states)])
              = "COLD_WAR_ESCALATION"
    /\ run_frame.pc = "after" =>
         /\ Len(run_frame.timeline_events) = 3
         /\ active_simulations[run_frame.sim].end_scenario = "Nuclear War"
    /\ \A id \in DOMAIN active_simulations :
         run_frame.pc = "idle" =>
           LET simulation == active_simulations[id]
           IN  /\ ColdWarLadder(simulation.timeline_events, simulation.world_states)
               /\ Len(simulation.timeline_events) = 3
               /\ simulation.end_scenario = "Nuclear War"
               /\ simulation.predicted_end_date # NoneVal
               /\ simulation.predicted_end_date < HorizonDays * DayTicks

\* a published run whose three events took the longest day advances
C29_Witness ==
  /\ mode = "predict"
  /\ run_frame.pc = "idle"
  /\ "p1" \in DOMAIN active_simulations
  /\ LET simulation == active_simulations["p1"]
     IN  /\ Len(simulation.timeline_events) = 3
         /\ simulation.world_states[2].nuclear_threat_level = 60
         /\ simulation.world_states[3].nuclear_threat_level = 80
         /\ simulation.world_states[4].nuclear_threat_level = 100
         /\ simulation.end_scenario = "Nuclear War"
         /\ simulation.predicted_end_date = (30 + 30) * DayTicks

\* ------------------------------------------------------------------------
\* What a resolved outcome leaves alone
\* ------------------------------------------------------------------------
\* the Relation of the outcome's actor and target, in either order of the two
OfActorAndTarget(key, action) ==
  key \in { << action.actor_id, action.target_id >>,
            << action.target_id, action.actor_id >> }

\* C30: an outcome whose action is not diplomatic leaves the trust of every
\* Relation unchanged; and any outcome leaves unchanged every Relation other
\* than that of its actor and target, every field of every Relation but its
\* trust, every Country and every Doctrine
C30_OutcomeTouchesOnlyPairTrust ==
  [][ \A id \in DOMAIN simulations :
        LET before == simulations[id]
            after  == simulations'[id]
            taken  == Updating /\ tick_frame.sim = id
        IN  /\ id \in DOMAIN simulations'
            /\ after.countries = before.countries
            /\ after.doctrines = before.doctrines
            /\ DOMAIN after.relations = DOMAIN before.relations
            /\ \A key \in DOMAIN before.relations :
                 /\ [after.relations[key] EXCEPT
                       !.trust_level = before.relations[key].trust_level]
                      = before.relations[key]
                 /\ after.relations[key].trust_level # before.relations[key].trust_level
                      => /\ taken
                         /\ CurOutcome.action_id = CurAction.id
                         /\ CurAction.action_type = "diplomatic"
                         /\ OfActorAndTarget(key, CurAction) ]_vars

\* the Relation Updater has taken a military outcome of non-zero magnitude
\* whose actor and target have a Relation under the key it looks up
C30_Witness ==
  /\ mode = "steps"
  /\ tick_frame.pc = "update"
  /\ tick_frame.i = 2
  /\ tick_frame.new_actions[1].action_type = "military"
  /\ tick_frame.new_outcomes[1].impact_magnitude > 0
  /\ relation_key(tick_frame.new_actions[1]) \in DOMAIN WS.relations
  /\ WS.week_number = 3
====
